---- MODULE Spec2Model ----
(***************************************************************************)
(* The content script of ADO PR Reviewer (content/content.js): the         *)
(* single-flight review orchestrator handleReview, the extraction strategy *)
(* chain extractDiffs, the lenient response parser parseReviewResponse and *)
(* the callers of handleReview (the popup's startReview message and the    *)
(* floating button).                                                       *)
(*                                                                         *)
(* One action is one run-to-completion segment of the JavaScript event     *)
(* loop: the code between two suspension points (await).                   *)
(***************************************************************************)
EXTENDS Integers, Sequences, FiniteSets, TLC

\* ------------------------------------------------------------------ bounds
\* Most records one page-scanning strategy or the remote change list yields.
MaxRecs == 2
\* Most review passes that run to their end in one behaviour.
MaxPasses == 1

\* ------------------------------------------------------------- JSON values
\* A decoded JSON value. Objects keep their members as a sequence of
\* [k, v] pairs, in text order.
JNull == [t |-> "null"]
JNum(n) == [t |-> "num", n |-> n]
JStr(s) == [t |-> "str", s |-> s]
JArr(a) == [t |-> "arr", a |-> a]
JObj(o) == [t |-> "obj", o |-> o]
Member(k, v) == [k |-> k, v |-> v]

\* JavaScript's undefined, the value of a property that is not there.
Undefined == [t |-> "undefined"]

\* obj.key in JavaScript, for a value that is not null: the last member of
\* that name of an object, the length of an array, undefined otherwise.
RECURSIVE Lookup(_, _)
Lookup(members, key) ==
    IF members = <<>> THEN Undefined
    ELSE IF members[Len(members)].k = key THEN members[Len(members)].v
    ELSE Lookup(SubSeq(members, 1, Len(members) - 1), key)

Prop(val, key) ==
    CASE val.t = "obj" -> Lookup(val.o, key)
      [] val.t = "arr" /\ key = "length" -> JNum(Len(val.a))
      [] OTHER -> Undefined

\* JavaScript truthiness of a JSON value. A string is an atom; "" is the
\* empty string.
Truthy(val) ==
    CASE val.t = "null" -> FALSE
      [] val.t = "undefined" -> FALSE
      [] val.t = "num" -> val.n # 0
      [] val.t = "str" -> val.s # ""
      [] OTHER -> TRUE

\* val?.length > 0
HasItems(val) ==
    CASE val.t = "arr" -> Len(val.a) > 0
      [] val.t = "str" -> val.s # ""
      [] val.t = "obj" -> Prop(val, "length").t = "num" /\ Prop(val, "length").n > 0
      [] OTHER -> FALSE

\* x || null
OrNull(val) == IF Truthy(val) THEN val ELSE JNull

\* -------------------------------------------------------- review results
\* The shape rules parseReviewResponse applies to a decoded value: an object
\* gives its summary and its issues, an array is the issues, anything else
\* gives nothing.
ShapeResult(parsed) ==
    CASE parsed.t = "obj" ->
           [summary |-> OrNull(Prop(parsed, "summary")),
            issues |-> IF Prop(parsed, "issues").t = "arr"
                       THEN Prop(parsed, "issues").a ELSE <<>>]
      [] parsed.t = "arr" -> [summary |-> JNull, issues |-> parsed.a]
      [] OTHER -> [summary |-> JNull, issues |-> <<>>]

EmptyResult == [summary |-> JNull, issues |-> <<>>]

ZeroCounts == [critical |-> 0, warnings |-> 0, suggestions |-> 0]

\* A tally that knows three severities and leaves any other uncounted.
RECURSIVE CountBySeverityStrict(_, _)
CountBySeverityStrict(issues, acc) ==
    IF issues = <<>> THEN [threw |-> FALSE, counts |-> acc]
    ELSE IF Head(issues).t = "null" THEN [threw |-> TRUE, counts |-> acc]
    ELSE LET sev == Prop(Head(issues), "severity")
             nxt == CASE sev = JStr("critical") ->
                           [acc EXCEPT !.critical = @ + 1]
                      [] sev = JStr("warning") ->
                           [acc EXCEPT !.warnings = @ + 1]
                      [] sev = JStr("suggestion") ->
                           [acc EXCEPT !.suggestions = @ + 1]
                      [] OTHER -> acc
         IN CountBySeverityStrict(Tail(issues), nxt)

\* The severity tally of handleReview's forEach. Reading issue.severity of
\* null raises a TypeError: threw tells it.
RECURSIVE CountBySeverity(_, _)
CountBySeverity(issues, acc) ==
    IF issues = <<>> THEN [threw |-> FALSE, counts |-> acc]
    ELSE IF Head(issues).t = "null" THEN [threw |-> TRUE, counts |-> acc]
    ELSE LET sev == Prop(Head(issues), "severity")
             nxt == CASE sev = JStr("critical") ->
                           [acc EXCEPT !.critical = @ + 1]
                      [] sev = JStr("warning") ->
                           [acc EXCEPT !.warnings = @ + 1]
                      [] OTHER -> [acc EXCEPT !.suggestions = @ + 1]
         IN CountBySeverity(Tail(issues), nxt)

\* createSummaryElement raises a TypeError when mainChanges or newExports
\* has a positive length and no map method, or when riskLevel is truthy and
\* has no toUpperCase method.
SummaryThrows(summary) ==
    \/ HasItems(Prop(summary, "mainChanges"))
         /\ Prop(summary, "mainChanges").t # "arr"
    \/ HasItems(Prop(summary, "newExports"))
         /\ Prop(summary, "newExports").t # "arr"
    \/ Truthy(Prop(summary, "riskLevel"))
         /\ Prop(summary, "riskLevel").t # "str"

\* The review panel: whether the element exists, whether it is shown, and
\* how many summary and issue elements its list holds.
NoPanel == [exists |-> FALSE, visible |-> FALSE, summaries |-> 0, issues |-> 0]

createIssuesPanel == [exists |-> TRUE, visible |-> FALSE, summaries |-> 0, issues |-> 0]

\* displayIssues: the panel after the call, and whether the call raised
\* (then the panel was created when missing, and nothing was appended).
displayIssues(pan, reviewResult) ==
    LET p0 == IF pan.exists THEN pan ELSE createIssuesPanel
    IN IF Truthy(reviewResult.summary) /\ SummaryThrows(reviewResult.summary)
       THEN [threw |-> TRUE, panel |-> p0]
       ELSE [threw |-> FALSE,
             panel |-> [p0 EXCEPT
                 !.summaries = @ + (IF Truthy(reviewResult.summary) THEN 1 ELSE 0),
                 !.issues = @ + Len(reviewResult.issues),
                 !.visible = TRUE]]

\* ------------------------------------------------------- response parser
\* The model's reply is a string, kept here as its sequence of lexical
\* pieces: "nl" is white space, "fence" is ```, "json" the language tag json
\* (in any case), "lang" another language tag, "prose" text that is no JSON,
\* the six punctuation marks of JSON, and "lit" a JSON scalar (v).
Tok(c) == [c |-> c]
Lit(v) == [c |-> "lit", v |-> v]

RECURSIVE SkipWs(_)
SkipWs(toks) ==
    IF toks # <<>> /\ Head(toks).c = "nl" THEN SkipWs(Tail(toks)) ELSE toks

RECURSIVE DropWsRight(_)
DropWsRight(toks) ==
    IF toks # <<>> /\ toks[Len(toks)].c = "nl"
    THEN DropWsRight(SubSeq(toks, 1, Len(toks) - 1)) ELSE toks

\* response.trim()
TrimText(toks) == DropWsRight(SkipWs(toks))

\* .replace(/^```json\n?/i, '')
StripJsonFenceStart(toks) ==
    IF Len(toks) >= 2 /\ toks[1].c = "fence" /\ toks[2].c = "json"
    THEN IF Len(toks) >= 3 /\ toks[3].c = "nl"
         THEN SubSeq(toks, 4, Len(toks)) ELSE SubSeq(toks, 3, Len(toks))
    ELSE toks

\* .replace(/^```\n?/, '')
StripFenceStart(toks) ==
    IF Len(toks) >= 1 /\ toks[1].c = "fence"
    THEN IF Len(toks) >= 2 /\ toks[2].c = "nl"
         THEN SubSeq(toks, 3, Len(toks)) ELSE SubSeq(toks, 2, Len(toks))
    ELSE toks

\* .replace(/\n?```$/, '')
StripFenceEnd(toks) ==
    IF Len(toks) >= 1 /\ toks[Len(toks)].c = "fence"
    THEN IF Len(toks) >= 2 /\ toks[Len(toks) - 1].c = "nl"
         THEN SubSeq(toks, 1, Len(toks) - 2) ELSE SubSeq(toks, 1, Len(toks) - 1)
    ELSE toks

ParseFail == [ok |-> FALSE, val |-> JNull, rest |-> <<>>]

\* JSON.parse, by recursive descent: a value, the elements of an array after
\* its [, the members of an object after its {.
RECURSIVE ParseValue(_), ParseElems(_, _), ParseMembers(_, _)
ParseValue(toks) ==
    LET t == SkipWs(toks)
    IN IF t = <<>> THEN ParseFail
       ELSE CASE Head(t).c = "lit" -> [ok |-> TRUE, val |-> Head(t).v, rest |-> Tail(t)]
              [] Head(t).c = "[" ->
                   LET u == SkipWs(Tail(t))
                   IN IF u # <<>> /\ Head(u).c = "]"
                      THEN [ok |-> TRUE, val |-> JArr(<<>>), rest |-> Tail(u)]
                      ELSE ParseElems(Tail(t), <<>>)
              [] Head(t).c = "{" ->
                   LET u == SkipWs(Tail(t))
                   IN IF u # <<>> /\ Head(u).c = "}"
                      THEN [ok |-> TRUE, val |-> JObj(<<>>), rest |-> Tail(u)]
                      ELSE ParseMembers(Tail(t), <<>>)
              [] OTHER -> ParseFail

ParseElems(toks, acc) ==
    LET r == ParseValue(toks)
    IN IF ~r.ok THEN ParseFail
       ELSE LET u == SkipWs(r.rest)
            IN IF u = <<>> THEN ParseFail
               ELSE CASE Head(u).c = "]" ->
                           [ok |-> TRUE, val |-> JArr(Append(acc, r.val)), rest |-> Tail(u)]
                      [] Head(u).c = "," -> ParseElems(Tail(u), Append(acc, r.val))
                      [] OTHER -> ParseFail

ParseMembers(toks, acc) ==
    LET t == SkipWs(toks)
    IN IF t = <<>> \/ Head(t).c # "lit" THEN ParseFail
       ELSE IF Head(t).v.t # "str" THEN ParseFail
       ELSE LET u == SkipWs(Tail(t))
            IN IF u = <<>> \/ Head(u).c # ":" THEN ParseFail
               ELSE LET r == ParseValue(Tail(u))
                    IN IF ~r.ok THEN ParseFail
                       ELSE LET w == SkipWs(r.rest)
                                m == Append(acc, Member(Head(t).v.s, r.val))
                            IN IF w = <<>> THEN ParseFail
                               ELSE CASE Head(w).c = "}" ->
                                           [ok |-> TRUE, val |-> JObj(m), rest |-> Tail(w)]
                                      [] Head(w).c = "," -> ParseMembers(Tail(w), m)
                                      [] OTHER -> ParseFail

JSONparse(toks) ==
    LET r == ParseValue(toks)
    IN IF r.ok /\ SkipWs(r.rest) = <<>> THEN [ok |-> TRUE, val |-> r.val]
       ELSE [ok |-> FALSE, val |-> JNull]

\* response.match(/\{[\s\S]*\}/) and response.match(/\[[\s\S]*\]/): the span
\* from the first opening mark to the last closing mark, when there is one.
Positions(toks, c) == { i \in 1..Len(toks) : toks[i].c = c }

Min(S) == CHOOSE x \in S : \A y \in S : x <= y
Max(S) == CHOOSE x \in S : \A y \in S : x >= y

HasSpan(toks, open, close) ==
    /\ Positions(toks, open) # {}
    /\ Positions(toks, close) # {}
    /\ Max(Positions(toks, close)) > Min(Positions(toks, open))

Span(toks, open, close) ==
    SubSeq(toks, Min(Positions(toks, open)), Max(Positions(toks, close)))

\* What a call gives when an exception leaves it.
Raised == [raised |-> TRUE]

\* A catch branch whose JSON.parse calls have no try of their own: a span
\* that is no JSON lets the exception out.
RecoverFromTextUnguarded(response) ==
    IF HasSpan(response, "{", "}")
    THEN IF JSONparse(Span(response, "{", "}")).ok
         THEN ShapeResult(JSONparse(Span(response, "{", "}")).val)
         ELSE Raised
    ELSE IF HasSpan(response, "[", "]")
    THEN IF JSONparse(Span(response, "[", "]")).ok
         THEN ShapeResult(JSONparse(Span(response, "[", "]")).val)
         ELSE Raised
    ELSE EmptyResult

\* The catch branch of parseReviewResponse: the object span, then the array
\* span, then nothing.
RecoverFromText(response) ==
    LET obj == IF HasSpan(response, "{", "}")
               THEN JSONparse(Span(response, "{", "}")) ELSE [ok |-> FALSE, val |-> JNull]
        arr == IF HasSpan(response, "[", "]")
               THEN JSONparse(Span(response, "[", "]")) ELSE [ok |-> FALSE, val |-> JNull]
    IN IF obj.ok
       THEN [summary |-> OrNull(Prop(obj.val, "summary")),
             issues |-> IF Prop(obj.val, "issues").t = "arr"
                        THEN Prop(obj.val, "issues").a ELSE <<>>]
       ELSE IF arr.ok THEN [summary |-> JNull, issues |-> arr.val.a]
       ELSE EmptyResult

parseReviewResponse(response) ==
    LET cleaned == StripFenceEnd(StripFenceStart(
                       StripFenceEnd(StripJsonFenceStart(TrimText(response)))))
        parsed == JSONparse(cleaned)
    IN IF parsed.ok THEN ShapeResult(parsed.val) ELSE RecoverFromText(response)

\* The text of a JSON value.
RECURSIVE Tokens(_), JoinTokens(_, _)
Tokens(val) ==
    CASE val.t = "arr" ->
           <<Tok("[")>> \o JoinTokens([i \in 1..Len(val.a) |-> Tokens(val.a[i])], 1) \o <<Tok("]")>>
      [] val.t = "obj" ->
           <<Tok("{")>>
           \o JoinTokens([i \in 1..Len(val.o) |->
                  <<Lit(JStr(val.o[i].k)), Tok(":")>> \o Tokens(val.o[i].v)], 1)
           \o <<Tok("}")>>
      [] OTHER -> <<Lit(val)>>

JoinTokens(parts, i) ==
    IF i > Len(parts) THEN <<>>
    ELSE IF i = Len(parts) THEN parts[i]
    ELSE parts[i] \o <<Tok(",")>> \o JoinTokens(parts, i + 1)

\* Replies of the model.
Issue(severity) ==
    JObj(<< Member("line", JNum(3)), Member("severity", JStr(severity)),
            Member("title", JStr("title")) >>)

GoodSummary ==
    JObj(<< Member("description", JStr("text")), Member("riskLevel", JStr("low")) >>)

ModelTexts ==
    { Tokens(JObj(<< Member("summary", GoodSummary),
                     Member("issues", JArr(<<Issue("critical")>>)) >>)),
      <<Tok("fence"), Tok("json"), Tok("nl")>>
          \o Tokens(JArr(<< Issue("warning"), Issue("info") >>))
          \o <<Tok("nl"), Tok("fence")>>,
      <<Tok("prose")>>,
      Tokens(JObj(<< Member("issues", JArr(<<JNull>>)) >>)),
      Tokens(JObj(<< Member("summary", JObj(<<Member("riskLevel", JNum(5))>>)) >>)),
      Tokens(JObj(<< Member("issues", JArr(<<JNum(5), JStr("text")>>)) >>)) }

\* parseReviewResponse on each of these replies.
ParsedReply == [text \in ModelTexts |-> parseReviewResponse(text)]

\* ------------------------------------------------------ extraction chain
Files == {"a.js", "b.js"}

\* The page-scanning strategies, in the order extractDiffs tries them.
DomStrategies ==
    << "SideBySideView", "ModernViewer", "FileDiffContainers",
       "MonacoEditor", "GenericCodeBlocks", "VisibleDiffArea" >>

Strategies == <<"ADOApi">> \o DomStrategies

\* Strategies that push one record at most.
SingleRecord == {"SideBySideView", "ModernViewer", "VisibleDiffArea"}

\* A page as the scanning strategies see it: the file the page displays
\* (getCurrentFileName) and how many records each strategy finds on it.
\* The pages tried are the page on which no strategy finds anything and,
\* for each strategy, the pages on which it is the first to find something
\* (one record, or several when it can), with the strategies after it
\* finding nothing or finding as much as they can.
MostOf(s) == IF s \in SingleRecord THEN 1 ELSE MaxRecs

PageWith(cur, first, found, rest) ==
    [cur |-> cur,
     n |-> [s \in {DomStrategies[i] : i \in 1..Len(DomStrategies)} |->
              LET at == CHOOSE i \in 1..Len(DomStrategies) : DomStrategies[i] = s
              IN IF at < first THEN 0
                 ELSE IF at = first THEN found
                 ELSE IF rest THEN MostOf(s) ELSE 0]]

DomPages ==
    { PageWith(cur, Len(DomStrategies) + 1, 0, FALSE) : cur \in Files }
    \cup UNION { UNION { { PageWith(cur, first, found, rest) :
                             found \in 1..MostOf(DomStrategies[first]), rest \in BOOLEAN } :
                         first \in 1..Len(DomStrategies) } : cur \in Files }

\* What a page-scanning strategy returns on a page: each record carries the
\* name of the displayed file.
DomOutput(s, dom) ==
    [i \in 1..dom.n[s] |-> [filename |-> dom.cur, k |-> i, isApiDiff |-> FALSE]]

\* What extractFromADOApi can return: records for distinct files, in the
\* order of the pull request's change list.
RECURSIVE Arrangements(_, _)
Arrangements(files, n) ==
    IF n = 0 THEN {<<>>}
    ELSE {<<>>} \cup
         UNION { { <<f>> \o rest : rest \in Arrangements(files \ {f}, n - 1) } : f \in files }

ApiOutput(paths) ==
    [i \in 1..Len(paths) |-> [filename |-> paths[i], k |-> i, isApiDiff |-> TRUE]]

ApiPaths == Arrangements(Files, MaxRecs)

\* The user's selection, a string of characters.
Selections == { <<>>, <<" ">>, <<"x">>, <<" ", "x", " ">> }

RECURSIVE TrimLeft(_)
TrimLeft(str) ==
    IF str # <<>> /\ Head(str) = " " THEN TrimLeft(Tail(str)) ELSE str

RECURSIVE TrimRight(_)
TrimRight(str) ==
    IF str # <<>> /\ str[Len(str)] = " "
    THEN TrimRight(SubSeq(str, 1, Len(str) - 1)) ELSE str

Trim(str) == TrimRight(TrimLeft(str))

\* selection && selection.trim()
SelectionUsable(sel) == sel # <<>> /\ Trim(sel) # <<>>

SelectionRecord(sel) ==
    [filename |-> "Selected Code", content |-> sel, isSelection |-> TRUE]

\* A scope cut that keeps every record whatever the scope.
ScopeCutKeepsAll(type, extractedDiffs) == extractedDiffs

\* return type === 'current' ? [extractedDiffs[0]] : extractedDiffs
ScopeCut(type, extractedDiffs) ==
    IF type = "current" THEN <<extractedDiffs[1]>> ELSE extractedDiffs

\* A page scan that runs every strategy of ss and keeps what the first
\* successful one returned.
RECURSIVE ScanChainKeepsGoing(_, _, _, _)
ScanChainKeepsGoing(type, ss, dom, trace) ==
    IF ss = <<>> THEN [diffs |-> <<>>, trace |-> trace]
    ELSE LET out == DomOutput(Head(ss), dom)
             tr == Append(trace, [s |-> Head(ss), out |-> out])
             rest == ScanChainKeepsGoing(type, Tail(ss), dom, tr)
         IN IF Len(out) > 0
            THEN [diffs |-> ScopeCut(type, out), trace |-> rest.trace]
            ELSE rest

\* The page-scanning part of extractDiffs: the strategies of ss are run in
\* order on the page until one returns records. trace lists the strategies
\* invoked so far, each with what it returned.
RECURSIVE ScanChain(_, _, _, _)
ScanChain(type, ss, dom, trace) ==
    IF ss = <<>> THEN [diffs |-> <<>>, trace |-> trace]
    ELSE LET out == DomOutput(Head(ss), dom)
             tr == Append(trace, [s |-> Head(ss), out |-> out])
         IN IF Len(out) > 0
            THEN [diffs |-> ScopeCut(type, out), trace |-> tr]
            ELSE ScanChain(type, Tail(ss), dom, tr)


\* ------------------------------------------------------------ the program
Popups == {"popup"}
Fab == "fab"
Callers == Popups \cup {Fab}

Types == {"current", "all", "selected"}

\* The settings object a caller passes to handleReview.
SettingsOf(c) == IF c = Fab THEN "fabSettings" ELSE "popupSettings"

VARIABLES
    isReviewing,      \* the busy flag
    currentSettings,  \* the settings captured by the pass that last began
    pc,               \* where each caller's handler is suspended
    loc,              \* the local variables of each caller's handleReview
    notification,     \* the message of the notification on the page
    panel,            \* the review panel
    persisted,        \* reviewStats in chrome.storage.local
    passes,           \* how many passes have ended
    api,              \* one run of extractFromADOApi and of the loop after it
    parser,           \* one call of parseReviewResponse: its text, its result
    waiter,           \* one call of waitForElement
    ui,               \* the notifications and the review panel on the page
    container,        \* one call of extractDiffFromContainer
    prompt,           \* one call of buildReviewPrompt
    ctx,              \* one call of getADOContext
    listener          \* the onMessage listener and its requests

vars == << isReviewing, currentSettings, pc, loc, notification, panel,
           persisted, passes >>

ZeroStats == [files |-> 0, critical |-> 0, warnings |-> 0, suggestions |-> 0]

NoResult == [success |-> FALSE, error |-> "", issueCount |-> 0]

Failure(message) == [success |-> FALSE, error |-> message, issueCount |-> 0]

Success(totalIssues) == [success |-> TRUE, error |-> "", issueCount |-> totalIssues]

AlreadyInProgress == "Review already in progress"
NoChangesFound == "No code changes found to review"
ModelCallFailed == "API error"
TypeErrorMessage == "TypeError"
StorageFailed == "storage error"

\* No page: nothing displayed, nothing to find.
\* The parts of the content script that are followed on their own, at rest.
ApiIdle == [pc |-> "idle"]
ParserIdle == [pc |-> "idle"]
WaiterIdle == [pc |-> "idle"]
UiIdle == [pc |-> "idle"]
ContainerIdle == [pc |-> "idle"]
PromptIdle == [pc |-> "idle"]
ContextIdle == [pc |-> "idle"]
ListenerIdle == [pc |-> "idle"]

later == << ui, container, prompt, ctx, listener >>

others == << api, parser, waiter, later >>

NoPage == PageWith("", Len(DomStrategies) + 1, 0, FALSE)

IdleLoc ==
    [type |-> "none", diffs |-> <<>>, trace |-> <<>>, page |-> NoPage, idx |-> 0,
     stats |-> ZeroStats, totalIssues |-> 0, returned |-> 0, result |-> NoResult]

\* The positions inside a pass, between the busy guard and the return.
InPass == {"waitElement", "delay", "apiFetch", "extracted", "modelCall", "saving"}

Init ==
    /\ isReviewing = FALSE
    /\ currentSettings = "none"
    /\ pc = [c \in Callers |-> "idle"]
    /\ loc = [c \in Callers |-> IdleLoc]
    /\ notification = "none"
    /\ panel = NoPanel
    /\ persisted = [present |-> FALSE, stats |-> ZeroStats]
    /\ passes = 0
    /\ api = ApiIdle
    /\ parser = ParserIdle
    /\ waiter = WaiterIdle
    /\ ui = UiIdle
    /\ container = ContainerIdle
    /\ prompt = PromptIdle
    /\ ctx = ContextIdle
    /\ listener = ListenerIdle

\* A rejection that captures the rejected request's settings all the same.
RejectBusyCapturing(c) ==
    /\ pc' = [pc EXCEPT ![c] = "returned"]
    /\ loc' = [loc EXCEPT ![c] = [IdleLoc EXCEPT !.result = Failure(AlreadyInProgress)]]
    /\ currentSettings' = SettingsOf(c)
    /\ UNCHANGED << isReviewing, notification, panel, persisted, passes >>

\* A guard placed inside the try: the finally clause runs on the early
\* return too and clears the flag of the pass in flight.
RejectBusyClearsFlag(c) ==
    /\ pc' = [pc EXCEPT ![c] = "returned"]
    /\ loc' = [loc EXCEPT ![c] = [IdleLoc EXCEPT !.result = Failure(AlreadyInProgress)]]
    /\ isReviewing' = FALSE
    /\ UNCHANGED << currentSettings, notification, panel, persisted, passes >>

\* if (isReviewing) return {success: false, ...}: the call returns at once
\* and touches nothing.
RejectBusy(c) ==
    /\ pc' = [pc EXCEPT ![c] = "returned"]
    /\ loc' = [loc EXCEPT ![c] = [IdleLoc EXCEPT !.result = Failure(AlreadyInProgress)]]
    /\ UNCHANGED << isReviewing, currentSettings, notification, panel,
                    persisted, passes >>

\* A pass that suspends on waitForElement before it has set the flag.
BeginPassFlagLate(c, type, settings) ==
    /\ passes < MaxPasses
    /\ currentSettings' = settings
    /\ notification' = "starting"
    /\ pc' = [pc EXCEPT ![c] = "waitElement"]
    /\ loc' = [loc EXCEPT ![c] = [IdleLoc EXCEPT !.type = type]]
    /\ UNCHANGED << isReviewing, panel, persisted, passes >>

\* The pass begins: the flag is set and the settings are captured before
\* extractDiffs suspends on waitForElement.
BeginPass(c, type, settings) ==
    /\ passes < MaxPasses
    /\ isReviewing' = TRUE
    /\ currentSettings' = settings
    /\ notification' = "starting"
    /\ pc' = [pc EXCEPT ![c] = "waitElement"]
    /\ loc' = [loc EXCEPT ![c] = [IdleLoc EXCEPT !.type = type]]
    /\ UNCHANGED << panel, persisted, passes >>

\* handleReview up to its first suspension point.
handleReview(c, type, settings) ==
    IF isReviewing THEN RejectBusy(c) ELSE BeginPass(c, type, settings)

\* The onMessage listener receives {action: 'startReview', type, settings}.
StartReview(c, type) ==
    /\ c \in Popups
    /\ pc[c] = "idle"
    /\ handleReview(c, type, SettingsOf(c))

\* A click on the floating button: the handler reads the settings first.
FabClick ==
    /\ pc[Fab] = "idle"
    /\ pc' = [pc EXCEPT ![Fab] = "storage"]
    /\ UNCHANGED << isReviewing, currentSettings, loc, notification, panel,
                    persisted, passes >>

\* chrome.storage.sync.get settles: without an API key the handler shows an
\* error and ends, with one it calls handleReview('all', ...).
FabSettings(hasKey) ==
    /\ pc[Fab] = "storage"
    /\ IF hasKey
       THEN handleReview(Fab, "all", SettingsOf(Fab))
       ELSE /\ notification' = "needApiKey"
            /\ pc' = [pc EXCEPT ![Fab] = "idle"]
            /\ UNCHANGED << isReviewing, currentSettings, loc, panel,
                            persisted, passes >>

\* waitForElement settles (with the element or with null).
WaitElementSettles(c) ==
    /\ pc[c] = "waitElement"
    /\ pc' = [pc EXCEPT ![c] = "delay"]
    /\ UNCHANGED << isReviewing, currentSettings, loc, notification, panel,
                    persisted, passes >>

\* extractDiffs returns diffs: the promise handleReview awaits is resolved.
\* trace (the strategies invoked, each with what it returned) and page (the
\* page the strategies saw) are kept for the properties; the code does not
\* read them.
Extracted(c, found, dom) ==
    /\ pc' = [pc EXCEPT ![c] = "extracted"]
    /\ loc' = [loc EXCEPT ![c].diffs = found.diffs, ![c].trace = found.trace,
                          ![c].page = dom]
    /\ UNCHANGED << isReviewing, currentSettings, notification, panel,
                    persisted, passes >>

\* extractDiffs after the one-second delay: the selection, then the remote
\* content strategy (for every scope but 'selected'), then the page scan.
\* hasContext tells whether getADOContext resolves the page address; when
\* it does, extractFromADOApi suspends on its first fetch.
DelayElapses(c, sel, hasContext, dom) ==
    /\ pc[c] = "delay"
    /\ IF loc[c].type = "selected" /\ SelectionUsable(sel)
       THEN Extracted(c, [diffs |-> <<SelectionRecord(sel)>>, trace |-> <<>>], dom)
       ELSE IF loc[c].type # "selected"
       THEN IF hasContext
            THEN /\ pc' = [pc EXCEPT ![c] = "apiFetch"]
                 /\ UNCHANGED << isReviewing, currentSettings, loc, notification,
                                 panel, persisted, passes >>
            ELSE Extracted(c, ScanChain(loc[c].type, DomStrategies, dom,
                                        << [s |-> "ADOApi", out |-> <<>>] >>), dom)
       ELSE Extracted(c, ScanChain(loc[c].type, DomStrategies, dom, <<>>), dom)

\* extractFromADOApi settles with its records (none when a request failed):
\* a non-empty result is returned, an empty one lets the page scan run.
ApiSettles(c, paths, dom) ==
    /\ pc[c] = "apiFetch"
    /\ LET extractedDiffs == ApiOutput(paths)
           tr == << [s |-> "ADOApi", out |-> extractedDiffs] >>
       IN IF Len(extractedDiffs) > 0
          THEN Extracted(c, [diffs |-> ScopeCut(loc[c].type, extractedDiffs), trace |-> tr], dom)
          ELSE Extracted(c, ScanChain(loc[c].type, DomStrategies, dom, tr), dom)

\* return ...; finally { isReviewing = false }
Return(c, result) ==
    /\ isReviewing' = FALSE
    /\ pc' = [pc EXCEPT ![c] = "returned"]
    /\ loc' = [loc EXCEPT ![c] = [IdleLoc EXCEPT !.result = result]]
    /\ passes' = passes + 1

\* A catch block with no finally after it: the flag stays as it was.
CatchFlagKept(c, message) ==
    /\ notification' = "failed"
    /\ pc' = [pc EXCEPT ![c] = "returned"]
    /\ loc' = [loc EXCEPT ![c] = [IdleLoc EXCEPT !.result = Failure(message)]]
    /\ passes' = passes + 1
    /\ UNCHANGED isReviewing

\* catch (error) { showNotification(...); return {success: false, ...} }
Catch(c, message) ==
    /\ notification' = "failed"
    /\ Return(c, Failure(message))

\* A handleReview that starts the loop without looking at diffs.length.
AfterExtractNoCheck(c) ==
    /\ pc[c] = "extracted"
    /\ notification' = "reviewing"
    /\ pc' = [pc EXCEPT ![c] = IF Len(loc[c].diffs) = 0 THEN "saving" ELSE "modelCall"]
    /\ loc' = [loc EXCEPT ![c].idx = 1, ![c].trace = <<>>, ![c].page = NoPage,
                          ![c].stats = [ZeroStats EXCEPT !.files = Len(loc[c].diffs)]]
    /\ UNCHANGED << isReviewing, currentSettings, panel, persisted, passes >>

\* handleReview resumes with diffs: nothing to review ends the pass, else
\* the loop starts and reviewDiff posts the first record to the model.
AfterExtract(c) ==
    /\ pc[c] = "extracted"
    /\ IF Len(loc[c].diffs) = 0
       THEN /\ Return(c, Failure(NoChangesFound))
            /\ UNCHANGED << currentSettings, notification, panel, persisted >>
       ELSE /\ notification' = "reviewing"
            /\ pc' = [pc EXCEPT ![c] = "modelCall"]
            /\ loc' = [loc EXCEPT ![c].idx = 1, ![c].trace = <<>>, ![c].page = NoPage,
                                  ![c].stats = [ZeroStats EXCEPT !.files = Len(loc[c].diffs)]]
            /\ UNCHANGED << isReviewing, currentSettings, panel, persisted,
                            passes >>

\* handleReview goes on after a record: reviewDiff posts the next record,
\* or chrome.storage.local.set is called with the statistics. returned (how
\* many issues the parser has returned in this pass) is kept for the
\* properties; the code does not read it.
NextRecord(c, stats, totalIssues, returned) ==
    /\ loc' = [loc EXCEPT ![c].stats = stats, ![c].totalIssues = totalIssues,
                          ![c].returned = returned,
                          ![c].idx = IF loc[c].idx < Len(loc[c].diffs) THEN @ + 1 ELSE @]
    /\ pc' = [pc EXCEPT ![c] = IF loc[c].idx < Len(loc[c].diffs) THEN "modelCall" ELSE "saving"]
    /\ UNCHANGED << isReviewing, currentSettings, notification, passes >>

\* The model call of the current record returns text: the text is parsed,
\* the issues are counted and rendered, and the loop goes on. An exception
\* raised on the way is caught by handleReview's catch.
ModelReturns(c, text) ==
    /\ pc[c] = "modelCall"
    /\ LET reviewResult == ParsedReply[text]
           issues == reviewResult.issues
           counted == CountBySeverity(issues,
                          [critical |-> loc[c].stats.critical,
                           warnings |-> loc[c].stats.warnings,
                           suggestions |-> loc[c].stats.suggestions])
           shown == displayIssues(panel, reviewResult)
       IN IF Truthy(reviewResult.summary) \/ Len(issues) > 0
          THEN IF counted.threw
               THEN /\ Catch(c, TypeErrorMessage)
                    /\ UNCHANGED << currentSettings, panel >>
               ELSE IF shown.threw
               THEN /\ Catch(c, TypeErrorMessage)
                    /\ panel' = shown.panel
                    /\ UNCHANGED currentSettings
               ELSE /\ panel' = shown.panel
                    /\ NextRecord(c,
                         [files |-> loc[c].stats.files,
                          critical |-> counted.counts.critical,
                          warnings |-> counted.counts.warnings,
                          suggestions |-> counted.counts.suggestions],
                         loc[c].totalIssues + Len(issues),
                         loc[c].returned + Len(issues))
          ELSE /\ panel' = panel
               /\ NextRecord(c, loc[c].stats, loc[c].totalIssues,
                             loc[c].returned + Len(issues))
    /\ UNCHANGED persisted

\* A model-call failure after which the statistics gathered so far are
\* stored before the failure is reported.
ModelFailsSavesStats(c) ==
    /\ pc[c] = "modelCall"
    /\ persisted' = [present |-> TRUE, stats |-> loc[c].stats]
    /\ Catch(c, ModelCallFailed)
    /\ UNCHANGED << currentSettings, panel >>

\* callGeminiAPI raises: a response that is not ok, or a transport error.
ModelFails(c) ==
    /\ pc[c] = "modelCall"
    /\ Catch(c, ModelCallFailed)
    /\ UNCHANGED << currentSettings, panel, persisted >>

\* A save that adds this pass's statistics to those already stored.
SaveSettlesAccumulates(c) ==
    /\ pc[c] = "saving"
    /\ persisted' =
         [present |-> TRUE,
          stats |-> IF persisted.present
                    THEN [files |-> persisted.stats.files + loc[c].stats.files,
                          critical |-> persisted.stats.critical + loc[c].stats.critical,
                          warnings |-> persisted.stats.warnings + loc[c].stats.warnings,
                          suggestions |-> persisted.stats.suggestions + loc[c].stats.suggestions]
                    ELSE loc[c].stats]
    /\ notification' = "complete"
    /\ Return(c, Success(loc[c].totalIssues))
    /\ UNCHANGED << currentSettings, panel >>

\* chrome.storage.local.set settles: the statistics are stored, the count
\* is announced and the pass returns its reply.
SaveSettles(c) ==
    /\ pc[c] = "saving"
    /\ persisted' = [present |-> TRUE, stats |-> loc[c].stats]
    /\ notification' = "complete"
    /\ Return(c, Success(loc[c].totalIssues))
    /\ UNCHANGED << currentSettings, panel >>

\* chrome.storage.local.set rejects.
SaveFails(c) ==
    /\ pc[c] = "saving"
    /\ Catch(c, StorageFailed)
    /\ UNCHANGED << currentSettings, panel, persisted >>

\* The caller gets the reply: the listener passes it to sendResponse, the
\* floating button shows an error when the reply is a failure.
Deliver(c) ==
    /\ pc[c] = "returned"
    /\ pc' = [pc EXCEPT ![c] = "idle"]
    /\ loc' = [loc EXCEPT ![c] = IdleLoc]
    /\ notification' = IF c = Fab /\ ~loc[c].result.success THEN "fabError" ELSE notification
    /\ UNCHANGED << isReviewing, currentSettings, panel, persisted, passes >>

\* The inputs of each step: the request, the page, the network's answer.
Request == \E c \in Popups, type \in Types : StartReview(c, type)

FabSettingsRead == \E hasKey \in BOOLEAN : FabSettings(hasKey)

DelayOver(c) ==
    /\ pc[c] = "delay"
    /\ \E sel \in (IF loc[c].type = "selected" THEN Selections ELSE {<<>>}),
          hasContext \in (IF loc[c].type = "selected" THEN {FALSE} ELSE BOOLEAN),
          dom \in DomPages :
         DelayElapses(c, sel, hasContext, dom)

ApiDone(c) ==
    /\ pc[c] = "apiFetch"
    /\ \E paths \in ApiPaths, dom \in DomPages : ApiSettles(c, paths, dom)

ModelSettles(c) ==
    /\ pc[c] = "modelCall"
    /\ \/ \E text \in ModelTexts : ModelReturns(c, text)
       \/ ModelFails(c)

SaveDone(c) == SaveSettles(c) \/ SaveFails(c)

Next ==
    \/ Request /\ UNCHANGED others
    \/ FabClick /\ UNCHANGED others
    \/ FabSettingsRead /\ UNCHANGED others
    \/ \E c \in Callers : WaitElementSettles(c) /\ UNCHANGED others
    \/ \E c \in Callers : DelayOver(c) /\ UNCHANGED others
    \/ \E c \in Callers : ApiDone(c) /\ UNCHANGED others
    \/ \E c \in Callers : AfterExtract(c) /\ UNCHANGED others
    \/ \E c \in Callers : ModelSettles(c) /\ UNCHANGED others
    \/ \E c \in Callers : SaveDone(c) /\ UNCHANGED others
    \/ \E c \in Callers : Deliver(c) /\ UNCHANGED others

Spec == Init /\ [][Next]_vars

\* A step that takes a pass forward: an awaited step settles, or the
\* continuation of handleReview that is ready runs.
Settle ==
    \E c \in Callers :
        \/ WaitElementSettles(c)
        \/ DelayOver(c)
        \/ ApiDone(c)
        \/ AfterExtract(c)
        \/ ModelSettles(c)
        \/ SaveDone(c)

\* Every awaited step settles in the end and the event loop starves no
\* continuation: a pass that can go forward does.
Fairness == WF_vars(Settle)

FairSpec == Spec /\ Fairness


\* ------------------------------------------------------------- properties
Last(seq) == seq[Len(seq)]

Active == { c \in Callers : pc[c] \in InPass }

Rejected(c) == pc[c] = "returned" /\ loc[c].result = Failure(AlreadyInProgress)

\* C1: at most one review pass is active at any time, and while a pass is
\* suspended (in extraction, fetch, model call or storage write) the busy
\* flag is set, so no second call gets past the guard.
C1_SinglePass ==
    /\ Cardinality(Active) <= 1
    /\ \A c \in Callers : pc[c] \in InPass => isReviewing

\* The floating button's pass is suspended in its model call and the
\* popup's request, made meanwhile, has been turned away.
C1_Witness ==
    /\ pc[Fab] = "modelCall"
    /\ isReviewing
    /\ Rejected("popup")

ChainOf(type) == IF type = "selected" THEN DomStrategies ELSE Strategies

\* The strategy whose records extractDiffs returned produced something.
HasWinner(c) == loc[c].trace # <<>> /\ Len(Last(loc[c].trace).out) > 0

\* seq is a non-empty sequence that starts as whole starts.
IsPrefix(seq, whole) ==
    /\ Len(seq) >= 1
    /\ Len(seq) <= Len(whole)
    /\ \A i \in 1..Len(seq) : seq[i] = whole[i]

\* C4: extractDiffs invokes the strategies in the fixed priority order,
\* stops at the first that returns a non-empty sequence and returns records
\* of that strategy's output; it returns nothing only when every strategy
\* has been invoked and has returned nothing.
C4_FirstNonEmptyWins ==
    \A c \in Callers :
        pc[c] = "extracted" /\ loc[c].trace # <<>>
        => LET tr == loc[c].trace
               chain == ChainOf(loc[c].type)
           IN /\ Len(tr) <= Len(chain)
              /\ \A i \in 1..Len(tr) : tr[i].s = chain[i]
              /\ \A i \in 1..(Len(tr) - 1) : tr[i].out = <<>>
              /\ IF Len(Last(tr).out) > 0
                 THEN IsPrefix(loc[c].diffs, Last(tr).out)
                 ELSE Len(tr) = Len(chain) /\ loc[c].diffs = <<>>

\* The container scan won after the remote content and two page strategies
\* had returned nothing, on a page where the generic code blocks would have
\* given records too.
C4_Witness ==
    \E c \in Callers :
        /\ pc[c] = "extracted"
        /\ Len(loc[c].trace) = 4
        /\ Last(loc[c].trace).s = "FileDiffContainers"
        /\ HasWinner(c)
        /\ loc[c].page.n["GenericCodeBlocks"] > 0

\* C5: with scope 'selected' no strategy of the chain is invoked; an empty
\* or blank selection gives an empty result and any other selection gives
\* one record holding the selection as it is.
C5_SelectedNeverFallsBack ==
    \A c \in Callers :
        pc[c] = "extracted" /\ loc[c].type = "selected"
        => /\ loc[c].trace = <<>>
           /\ \/ loc[c].diffs = <<>>
              \/ \E sel \in Selections :
                    SelectionUsable(sel) /\ loc[c].diffs = << SelectionRecord(sel) >>

\* C6: with scope 'current' extractDiffs returns the first record of the
\* winning strategy's output and nothing else, with scope 'all' the whole
\* output in its order.
C6_ScopeCut ==
    \A c \in Callers :
        pc[c] = "extracted" /\ HasWinner(c)
        => LET out == Last(loc[c].trace).out
           IN /\ loc[c].type = "current" => loc[c].diffs = << out[1] >>
              /\ loc[c].type = "all" => loc[c].diffs = out
              /\ loc[c].type = "selected" => loc[c].diffs = out

\* Scope 'current' and a winning strategy that returned several records.
C6_Witness ==
    \E c \in Callers :
        /\ pc[c] = "extracted"
        /\ loc[c].type = "current"
        /\ HasWinner(c)
        /\ Len(Last(loc[c].trace).out) >= 2
        /\ Len(loc[c].diffs) = 1

\* C7: with scope 'current' the one record reviewed is that of the file the
\* page displays, whenever the winning strategy has a record of that file.
C7_CurrentIsDisplayedFile ==
    \A c \in Callers :
        ( /\ pc[c] = "extracted"
          /\ loc[c].type = "current"
          /\ HasWinner(c)
          /\ \E i \in 1..Len(Last(loc[c].trace).out) :
                Last(loc[c].trace).out[i].filename = loc[c].page.cur )
        => /\ Len(loc[c].diffs) = 1
           /\ loc[c].diffs[1].filename = loc[c].page.cur

\* Every strategy extractDiffs invoked returned nothing.
AllEmpty(c) ==
    /\ pc[c] = "extracted"
    /\ loc[c].trace # <<>>
    /\ \A i \in 1..Len(loc[c].trace) : loc[c].trace[i].out = <<>>

\* C8: when every extraction strategy has returned nothing, the next step
\* of handleReview returns {success: false, error: 'No code changes found
\* to review'}: no record is sent to the model, the persisted statistics
\* and the panel are as they were and the busy flag is cleared.
C8_NoChangesFound ==
    [][ \A c \in Callers :
          (AllEmpty(c) /\ pc'[c] # pc[c])
          => /\ pc'[c] = "returned"
             /\ loc'[c].result = Failure(NoChangesFound)
             /\ ~isReviewing'
             /\ UNCHANGED << persisted, panel >> ]_vars

\* A pass that found nothing has returned its failure; nothing is stored.
C8_Witness ==
    \E c \in Callers :
        /\ pc[c] = "returned"
        /\ loc[c].result = Failure(NoChangesFound)
        /\ ~persisted.present
        /\ ~isReviewing

\* C9: when the model call of a record raises, the pass ends there: the
\* reply is a failure carrying the error's message, no further record is
\* sent, the persisted statistics are not written, the busy flag is
\* cleared and what the panel showed for the earlier records stays.
C9_ModelFailureAborts ==
    [][ \A c \in Callers :
          ( /\ pc[c] = "modelCall"
            /\ pc'[c] = "returned"
            /\ loc'[c].result.error = ModelCallFailed )
          => /\ ~loc'[c].result.success
             /\ loc'[c].idx = 0 /\ loc'[c].diffs = <<>>
             /\ ~isReviewing'
             /\ UNCHANGED << persisted, panel >> ]_vars

\* The model call of the second record failed after the first record's
\* issue had been rendered: the issue is in the panel, nothing is stored.
C9_Witness ==
    \E c \in Callers :
        /\ pc[c] = "returned"
        /\ loc[c].result = Failure(ModelCallFailed)
        /\ panel.issues > 0
        /\ ~persisted.present
        /\ ~isReviewing

\* C10: a pass that is reviewing records ends before its last record only
\* on a failure of the model call: whatever text the model returns, the
\* pass goes on to the next record or to the storing of the statistics.
C10_OnlyModelFailureStops ==
    [][ \A c \in Callers :
          (pc[c] = "modelCall" /\ pc'[c] = "returned")
          => loc'[c].result = Failure(ModelCallFailed) ]_vars

\* critical + warnings + suggestions
IssueSum(stats) == stats.critical + stats.warnings + stats.suggestions

\* C11: during a pass the three severity counters never decrease and add
\* up to the number of issues the parser has returned so far; the
\* statistics a successful pass stores add up to the number of issues the
\* parser returned over all its records, which is the reply's issueCount.
C11_CountersAddUp ==
    /\ [](\A c \in Callers :
            pc[c] \in {"modelCall", "saving"}
            => /\ IssueSum(loc[c].stats) = loc[c].returned
               /\ loc[c].totalIssues = loc[c].returned)
    /\ [][ \A c \in Callers :
             /\ (pc[c] = "modelCall" /\ pc'[c] \in {"modelCall", "saving"})
                => /\ loc'[c].stats.critical >= loc[c].stats.critical
                   /\ loc'[c].stats.warnings >= loc[c].stats.warnings
                   /\ loc'[c].stats.suggestions >= loc[c].stats.suggestions
             /\ (pc[c] = "saving" /\ pc'[c] = "returned" /\ loc'[c].result.success)
                => /\ persisted'.present
                   /\ IssueSum(persisted'.stats) = loc[c].returned
                   /\ loc'[c].result.issueCount = loc[c].returned ]_vars

\* A pass of two records has ended with success: three issues in all, one
\* of them of a severity that is neither critical nor warning.
C11_Witness ==
    \E c \in Callers :
        /\ pc[c] = "returned"
        /\ loc[c].result = Success(3)
        /\ persisted.present
        /\ persisted.stats.files = 2
        /\ persisted.stats.critical = 1
        /\ persisted.stats.warnings = 1
        /\ persisted.stats.suggestions = 1

\* C12: a pass that ends with its record list empty or exhausted stores
\* its statistics, announces the issue count and clears the busy flag.
C12_StatsWrittenAtEnd ==
    [][ \A c \in Callers :
          ( /\ pc'[c] = "returned"
            /\ \/ pc[c] = "extracted" /\ loc[c].diffs = <<>>
               \/ pc[c] = "saving" /\ loc'[c].result.success )
          => /\ persisted'.present
             /\ persisted'.stats = loc[c].stats
             /\ notification' = "complete"
             /\ ~isReviewing' ]_vars


\* ------------------------------------------- the remote content strategy
\* extractFromADOApi followed request by request, and after it the review
\* loop over the records it returned: every outbound request of one pass.
MAX_FILE_SIZE == 50000
MAX_FILES == 15

\* Most entries of a change list in which every kind of entry is tried at
\* every place.
MaxShort == 2
\* How many entries more than MAX_FILES the long change lists have.
MaxOver == 1

binaryExtensions ==
    {".png", ".jpg", ".jpeg", ".gif", ".ico", ".pdf", ".zip", ".dll", ".exe",
     ".woff", ".woff2", ".ttf", ".svg"}

\* filePath.toLowerCase(), on the extensions the change lists use.
toLowerCase(ext) ==
    CASE ext = ".PNG" -> ".png"
      [] ext = ".Svg" -> ".svg"
      [] ext = ".JS" -> ".js"
      [] OTHER -> ext

\* binaryExtensions.some(ext => filePath.toLowerCase().endsWith(ext))
IsBinary(path) == toLowerCase(path.ext) \in binaryExtensions

\* An HTTP response to a content request: its status and the length of its
\* text. failed is a request that raised (network error).
Response(ok, len) == [failed |-> FALSE, ok |-> ok, len |-> len]
NetworkError == [failed |-> TRUE, ok |-> FALSE, len |-> 0]

\* fetchFileContentByPath: the text of an ok response, '' otherwise. The
\* content is kept as its length.
fetchFileContentByPath(resp) ==
    IF resp.failed THEN 0
    ELSE IF resp.ok THEN resp.len
    ELSE 0

\* An entry of the change list together with what the server holds for it:
\* path.name is "" when the entry has no path, changeType is "" when the
\* entry has none.
Entry(isFolder, changeType, name, ext, new, orig) ==
    [isFolder |-> isFolder, changeType |-> changeType,
     path |-> [name |-> name, ext |-> ext], new |-> new, orig |-> orig]

Small == Response(TRUE, 1)

EntryKinds ==
    { Entry(TRUE, "edit", "src", "", Small, Small),
      Entry(FALSE, "delete", "old", ".js", Small, Small),
      Entry(FALSE, "edit", "", "", Small, Small),
      Entry(FALSE, "edit", "logo", ".PNG", Small, Small),
      Entry(FALSE, "edit", "a", ".js", Response(TRUE, MAX_FILE_SIZE), Small),
      Entry(FALSE, "edit", "a", ".js", Response(TRUE, MAX_FILE_SIZE + 1), Small),
      Entry(FALSE, "edit", "a", ".js", Response(TRUE, 0), Small),
      Entry(FALSE, "edit", "a", ".js", Response(FALSE, 9), Small),
      Entry(FALSE, "edit", "a", ".js", NetworkError, Small),
      Entry(FALSE, "edit", "a", ".js", Small, NetworkError),
      Entry(FALSE, "", "a", ".JS", Small, Response(FALSE, 9)),
      Entry(FALSE, "add", "new", ".js", Small, Response(FALSE, 9)) }

AddedFile == Entry(FALSE, "add", "new", ".js", Small, Response(FALSE, 9))

RECURSIVE ListsUpTo(_)
ListsUpTo(n) ==
    IF n = 0 THEN {<<>>}
    ELSE LET shorter == ListsUpTo(n - 1)
         IN shorter \cup { Append(l, e) : l \in shorter, e \in EntryKinds }

\* Change lists of MAX_FILES entries or a few more, all added files but
\* for one entry.
LongLists ==
    UNION { { [i \in 1..n |-> IF i = at THEN e ELSE AddedFile] :
                at \in 1..n, e \in EntryKinds } :
            n \in MAX_FILES..(MAX_FILES + MaxOver) }

\* What the page and the server are when extractFromADOApi runs: whether
\* the address resolves, the commits the last iteration names, the change
\* list.
Scenario(hasContext, sourceCommit, targetCommit, changesList) ==
    [hasContext |-> hasContext, sourceCommit |-> sourceCommit,
     targetCommit |-> targetCommit, changesList |-> changesList]

Scenarios ==
    { Scenario(h, sc, tc, l) :
        h \in BOOLEAN, sc \in BOOLEAN, tc \in BOOLEAN, l \in ListsUpTo(MaxShort) }
    \cup { Scenario(TRUE, TRUE, TRUE, l) : l \in LongLists }

\* The run as it starts: i is the place in the change list of the entry at
\* hand, newLen the length of its new content, diffs the records pushed,
\* r the place in diffs of the record under review. inflight (how many
\* requests are out) and raised (whether extractFromADOApi let an exception
\* out) are kept for the properties; the code has no such variables.
ApiStart(sc) ==
    [pc |-> "start", sc |-> sc, i |-> 0, newLen |-> 0, diffs |-> <<>>,
     r |-> 0, inflight |-> 0, raised |-> FALSE]

ApiInit ==
    /\ isReviewing = FALSE
    /\ currentSettings = "none"
    /\ pc = [c \in Callers |-> "idle"]
    /\ loc = [c \in Callers |-> IdleLoc]
    /\ notification = "none"
    /\ panel = NoPanel
    /\ persisted = [present |-> FALSE, stats |-> ZeroStats]
    /\ passes = 0
    /\ parser = ParserIdle
    /\ waiter = WaiterIdle
    /\ api \in { ApiStart(sc) : sc \in Scenarios }
    /\ ui = UiIdle
    /\ container = ContainerIdle
    /\ prompt = PromptIdle
    /\ ctx = ContextIdle
    /\ listener = ListenerIdle

\* change.changeType || 'edit'
ChangeTypeOf(change) == IF change.changeType = "" THEN "edit" ELSE change.changeType

\* A loop that never looks at how many records it has.
ReachedLimitNever(diffs) == FALSE

\* diffs.length >= MAX_FILES
ReachedLimit(diffs) == Len(diffs) >= MAX_FILES

\* newContent.length > MAX_FILE_SIZE
TooLarge(newLen) == newLen > MAX_FILE_SIZE

\* A filter that lets deleted files through.
SkippedBeforeFetchKeepsDeleted(change) ==
    \/ change.isFolder
    \/ change.path.name = ""
    \/ IsBinary(change.path)

\* The entries the loop passes over without a request: folders, deleted
\* files, entries with no path, binary files.
SkippedBeforeFetch(change) ==
    \/ change.isFolder
    \/ ChangeTypeOf(change) = "delete"
    \/ change.path.name = ""
    \/ IsBinary(change.path)

\* The record pushed for the entry at hand.
ApiRecord(st, newLen, originalFetched, originalLen) ==
    [at |-> st.i, filename |-> st.sc.changesList[st.i].path,
     changeType |-> ChangeTypeOf(st.sc.changesList[st.i]),
     newLen |-> newLen, originalFetched |-> originalFetched,
     originalLen |-> originalLen, isApiDiff |-> TRUE]

\* if (newContent) diffs.push({...}), and on to the next entry.
PushIfContent(st, newLen, originalFetched, originalLen) ==
    [st EXCEPT !.diffs = IF newLen > 0
                         THEN Append(@, ApiRecord(st, newLen, originalFetched, originalLen))
                         ELSE @,
               !.i = @ + 1, !.newLen = 0]

\* A loop body that requests the new and the original content together.
IssueBothContents(st) == [st EXCEPT !.pc = "newContent", !.inflight = @ + 2]

\* await fetchFileContentByPath(context, filePath, sourceCommit): the
\* request goes out and the loop is suspended.
IssueNewContent(st) == [st EXCEPT !.pc = "newContent", !.inflight = @ + 1]

\* The for loop from the entry at place st.i up to its next request, or to
\* the return of diffs. AfterNewContent is the loop body once the new
\* content is known and is not too large.
RECURSIVE LoopFrom(_), AfterNewContent(_, _)
LoopFrom(st) ==
    IF st.i > Len(st.sc.changesList) \/ ReachedLimit(st.diffs)
    THEN [st EXCEPT !.pc = "returned"]
    ELSE IF SkippedBeforeFetch(st.sc.changesList[st.i])
    THEN LoopFrom([st EXCEPT !.i = @ + 1])
    ELSE IF st.sc.sourceCommit
    THEN IssueNewContent(st)
    ELSE AfterNewContent(st, 0)

AfterNewContent(st, newLen) ==
    IF ChangeTypeOf(st.sc.changesList[st.i]) # "add" /\ st.sc.targetCommit
    THEN [st EXCEPT !.pc = "originalContent", !.newLen = newLen, !.inflight = @ + 1]
    ELSE LoopFrom(PushIfContent(st, newLen, FALSE, 0))

\* return [] from inside extractFromADOApi.
ReturnEmpty(st) == [st EXCEPT !.pc = "returned", !.diffs = <<>>]

\* extractFromADOApi is called: no context, no request.
ApiCalled ==
    /\ api.pc = "start"
    /\ api' = IF api.sc.hasContext
              THEN [api EXCEPT !.pc = "iterations", !.inflight = @ + 1]
              ELSE ReturnEmpty(api)

\* The outcomes of the iterations request and of the changes request.
StepOutcomes == {"ok", "notOk", "networkError", "badBody"}

\* An iterations step that lets the failure of its request out.
IterationsSettlesRaising(outcome, emptyList) ==
    /\ api.pc = "iterations"
    /\ api' = IF outcome = "ok" /\ ~emptyList
              THEN [api EXCEPT !.pc = "changes", !.inflight = @ - 1 + 1]
              ELSE IF outcome \in {"networkError", "badBody"}
              THEN [ReturnEmpty(api) EXCEPT !.inflight = @ - 1, !.raised = TRUE]
              ELSE [ReturnEmpty(api) EXCEPT !.inflight = @ - 1]

\* The iterations request settles: a response that is not ok, a network
\* error, a body that is no JSON and a list with no iteration all return
\* []; else the changes of the last iteration are requested.
IterationsSettles(outcome, emptyList) ==
    /\ api.pc = "iterations"
    /\ api' = IF outcome = "ok" /\ ~emptyList
              THEN [api EXCEPT !.pc = "changes", !.inflight = @ - 1 + 1]
              ELSE [ReturnEmpty(api) EXCEPT !.inflight = @ - 1]

\* The changes request settles: the loop starts at the first entry.
ChangesSettles(outcome) ==
    /\ api.pc = "changes"
    /\ api' = IF outcome = "ok"
              THEN LoopFrom([api EXCEPT !.inflight = @ - 1, !.i = 1])
              ELSE [ReturnEmpty(api) EXCEPT !.inflight = @ - 1]

\* The request of the new content settles: a file that is too large is
\* passed over, else the loop body goes on.
NewContentSettles ==
    /\ api.pc = "newContent"
    /\ LET st == [api EXCEPT !.inflight = @ - 1]
           newLen == fetchFileContentByPath(api.sc.changesList[api.i].new)
       IN api' = IF TooLarge(newLen)
                 THEN LoopFrom([st EXCEPT !.i = @ + 1])
                 ELSE AfterNewContent(st, newLen)

\* The request of the original content settles: the record is pushed when
\* there is new content, and the loop goes on.
OriginalContentSettles ==
    /\ api.pc = "originalContent"
    /\ LET st == [api EXCEPT !.inflight = @ - 1]
           originalLen == fetchFileContentByPath(api.sc.changesList[api.i].orig)
       IN api' = LoopFrom(PushIfContent(st, api.newLen, TRUE, originalLen))

\* extractDiffs has the records: with none the page-scanning strategies
\* run, else the records go to handleReview, whose loop posts the first
\* one to the model.
ChainGoesOn ==
    /\ api.pc = "returned"
    /\ api' = IF Len(api.diffs) > 0
              THEN [api EXCEPT !.pc = "modelCall", !.r = 1, !.inflight = @ + 1]
              ELSE [api EXCEPT !.pc = "pageScan"]

\* The model call of the record under review settles: on a failure the
\* pass ends, else the next record is posted, or the pass ends after the
\* last one.
ReviewSettles(failed) ==
    /\ api.pc = "modelCall"
    /\ api' = IF ~failed /\ api.r < Len(api.diffs)
              THEN [api EXCEPT !.r = @ + 1, !.inflight = @ - 1 + 1]
              ELSE [api EXCEPT !.pc = "finished", !.inflight = @ - 1]

mainVars == << isReviewing, currentSettings, pc, loc, notification, panel,
               persisted, passes >>

apiRest == << mainVars, parser, waiter, later >>

ApiNext ==
    \/ ApiCalled /\ UNCHANGED apiRest
    \/ \E outcome \in StepOutcomes, emptyList \in BOOLEAN :
          IterationsSettles(outcome, emptyList) /\ UNCHANGED apiRest
    \/ \E outcome \in StepOutcomes : ChangesSettles(outcome) /\ UNCHANGED apiRest
    \/ NewContentSettles /\ UNCHANGED apiRest
    \/ OriginalContentSettles /\ UNCHANGED apiRest
    \/ ChainGoesOn /\ UNCHANGED apiRest
    \/ \E failed \in BOOLEAN : ReviewSettles(failed) /\ UNCHANGED apiRest

ApiSpec == ApiInit /\ [][ApiNext]_api

\* The loop of extractFromADOApi has run (no early return emptied diffs).
LoopRan == api.pc \in {"returned", "pageScan", "modelCall", "finished"} /\ api.i >= 1

\* C13: whatever the change list and the outcomes of the content requests,
\* extractFromADOApi holds at most 15 records and no record whose new
\* content is longer than 50000 characters.
C13_AtMostFifteenAndSmall ==
    api.pc # "idle"
    => /\ Len(api.diffs) <= 15
       /\ \A k \in 1..Len(api.diffs) : api.diffs[k].newLen <= 50000

\* The loop stopped at the limit with an entry of the list unread, and a
\* file of exactly MAX_FILE_SIZE characters is among the records.
C13_Witness ==
    /\ api.pc = "returned"
    /\ Len(api.diffs) = MAX_FILES
    /\ api.i <= Len(api.sc.changesList)
    /\ \E k \in 1..Len(api.diffs) : api.diffs[k].newLen = MAX_FILE_SIZE

\* An entry of the change list that is to be emitted: no folder, not
\* deleted, no binary extension, new content retrieved (asked for at the
\* source commit, answered with success and not empty) and not too large.
Wanted(sc, e) ==
    /\ ~e.isFolder
    /\ e.changeType # "delete"
    /\ e.path.ext \notin {".png", ".PNG", ".svg", ".Svg", ".jpg", ".jpeg", ".gif", ".ico",
                          ".pdf", ".zip", ".dll", ".exe", ".woff", ".woff2", ".ttf"}
    /\ sc.sourceCommit /\ e.path.name # ""
    /\ ~e.new.failed /\ e.new.ok /\ e.new.len > 0
    /\ e.new.len <= 50000

\* The places in the list of the first entries wanted, 15 at most.
RECURSIVE WantedPlaces(_, _, _)
WantedPlaces(sc, from, acc) ==
    IF from > Len(sc.changesList) \/ Len(acc) >= 15 THEN acc
    ELSE WantedPlaces(sc, from + 1,
                      IF Wanted(sc, sc.changesList[from]) THEN Append(acc, from) ELSE acc)

C15_FailedStepReturnsEmpty ==
    [][ /\ (api.pc \in {"start", "iterations", "changes"} /\ api'.pc = "returned")
           => (api'.diffs = <<>> /\ ~api'.raised /\ api'.inflight = 0)
        /\ (api.pc = "returned" /\ api.diffs = <<>>) => api'.pc = "pageScan"
        /\ ~api'.raised ]_api

\* The address resolved, a request before the loop failed, and the page
\* scan is running.
C15_Witness ==
    /\ api.pc = "pageScan"
    /\ api.sc.hasContext
    /\ api.i = 0
    /\ ~api.raised

\* C19: at every instant at most one request is out: the next content
\* request or model call is made only when the one before has settled.
C19_OneRequestInFlight ==
    api.pc # "idle"
    => /\ api.inflight \in {0, 1}
       /\ api.inflight = 1 <=> api.pc \in {"iterations", "changes", "newContent",
                                           "originalContent", "modelCall"}

\* The model call of the second record is out, after the requests of the
\* fetch loop for two files.
C19_Witness ==
    /\ api.pc = "modelCall"
    /\ api.r = 2
    /\ api.inflight = 1
    /\ \E k \in 1..Len(api.diffs) : api.diffs[k].originalFetched


\* ------------------------------------------------- the parser on its own
\* parseReviewResponse applied to one reply text.

\* Most pieces of a reply text in which every piece is tried at every place.
MaxText == 3

Pieces ==
    { Tok("nl"), Tok("fence"), Tok("json"), Tok("prose"), Tok("["), Tok("]"),
      Tok("{"), Tok("}"), Tok(","), Tok(":"), Lit(JStr("issues")), Lit(JNum(1)) }

RECURSIVE TextsUpTo(_)
TextsUpTo(n) ==
    IF n = 0 THEN {<<>>}
    ELSE LET shorter == TextsUpTo(n - 1)
         IN shorter \cup { Append(t, x) : t \in shorter, x \in Pieces }

\* JSON values a reply can hold.
ReplyValues ==
    { JObj(<<>>),
      JObj(<< Member("issues", JArr(<<Issue("critical")>>)) >>),
      JObj(<< Member("summary", GoodSummary),
              Member("issues", JArr(<<Issue("warning"), Issue("info")>>)) >>),
      JObj(<< Member("summary", GoodSummary) >>),
      JObj(<< Member("summary", GoodSummary), Member("issues", JStr("none")) >>),
      JArr(<<>>),
      JArr(<<Issue("critical")>>),
      JArr(<<Issue("critical"), Issue("warning")>>),
      JArr(<<JNum(1), JStr("text")>>),
      JNull, JNum(1), JStr("text") }

\* What stands before and after the JSON in a reply: nothing, a code fence
\* (bare, tagged json, tagged with another language), prose.
Leads ==
    { <<>>, <<Tok("nl")>>, <<Tok("fence")>>, <<Tok("fence"), Tok("nl")>>,
      <<Tok("fence"), Tok("json")>>, <<Tok("fence"), Tok("json"), Tok("nl")>>,
      <<Tok("fence"), Tok("lang"), Tok("nl")>>, <<Tok("prose")>> }

Trails ==
    { <<>>, <<Tok("nl")>>, <<Tok("fence")>>, <<Tok("nl"), Tok("fence")>>,
      <<Tok("nl"), Tok("fence"), Tok("nl")>>, <<Tok("prose")>> }

\* No JSON value: the text was not made around one.
NoValue == [t |-> "none"]

Reply(lead, val, trail) ==
    [lead |-> lead, val |-> val, trail |-> trail,
     text |-> lead \o Tokens(val) \o trail]

Replies ==
    { Reply(lead, val, trail) : lead \in Leads, val \in ReplyValues, trail \in Trails }
    \cup { [lead |-> <<>>, val |-> NoValue, trail |-> <<>>, text |-> t] :
             t \in TextsUpTo(MaxText) }

ParserInit ==
    /\ isReviewing = FALSE
    /\ currentSettings = "none"
    /\ pc = [c \in Callers |-> "idle"]
    /\ loc = [c \in Callers |-> IdleLoc]
    /\ notification = "none"
    /\ panel = NoPanel
    /\ persisted = [present |-> FALSE, stats |-> ZeroStats]
    /\ passes = 0
    /\ api = ApiIdle
    /\ waiter = WaiterIdle
    /\ parser \in { [pc |-> "called", reply |-> r] : r \in Replies }
    /\ ui = UiIdle
    /\ container = ContainerIdle
    /\ prompt = PromptIdle
    /\ ctx = ContextIdle
    /\ listener = ListenerIdle

\* return parseReviewResponse(response)
ParserReturns ==
    /\ parser.pc = "called"
    /\ parser' = [pc |-> "returned", reply |-> parser.reply,
                  out |-> parseReviewResponse(parser.reply.text)]

parserRest == << mainVars, api, waiter, later >>

ParserNext == ParserReturns /\ UNCHANGED parserRest

ParserSpec == ParserInit /\ [][ParserNext]_parser

\* C16: for every reply text parseReviewResponse returns an object with a
\* summary and with issues that are a sequence, and lets no exception out.
C16_AlwaysASequence ==
    parser.pc = "returned"
    => /\ DOMAIN parser.out = {"summary", "issues"}
       /\ DOMAIN parser.out.issues = 1..Len(parser.out.issues)

\* A truncated JSON text gave the empty result.
C16_Witness ==
    /\ parser.pc = "returned"
    /\ parser.reply.text = << Tok("{"), Lit(JStr("issues")), Tok(":") >>
    /\ parser.out = EmptyResult

\* The reply is JSON between a leading and a trailing code fence, or with
\* no fence at all.
Fenced(r) ==
    /\ r.val # NoValue
    /\ \/ r.lead = <<>> /\ r.trail = <<>>
       \/ /\ Len(r.lead) >= 1 /\ r.lead[1] = Tok("fence")
          /\ r.trail \in { <<Tok("fence")>>, <<Tok("nl"), Tok("fence")>>,
                           <<Tok("nl"), Tok("fence"), Tok("nl")>> }

\* The result the reply's JSON value is to give.
ResultOf(val) ==
    IF val.t = "obj"
    THEN [summary |-> IF \E k \in 1..Len(val.o) : val.o[k].k = "summary"
                      THEN (CHOOSE m \in {val.o[k] : k \in 1..Len(val.o)} : m.k = "summary").v
                      ELSE JNull,
          issues |-> IF \E k \in 1..Len(val.o) : val.o[k].k = "issues" /\ val.o[k].v.t = "arr"
                     THEN (CHOOSE m \in {val.o[k] : k \in 1..Len(val.o)} : m.k = "issues").v.a
                     ELSE <<>>]
    ELSE [summary |-> JNull, issues |-> val.a]

\* C17: a reply that is valid JSON once its leading and trailing code
\* fence (with a language tag or without) are taken off gives, for an
\* object, its summary (none when missing) and its issues (none when
\* missing or no array), for an array, that array as issues and no summary:
\* the same as the JSON gives with no fence.
C17_FencedJson ==
    ( /\ parser.pc = "returned"
      /\ Fenced(parser.reply)
      /\ parser.reply.val.t \in {"obj", "arr"} )
    => /\ parser.out = ResultOf(parser.reply.val)
       /\ parser.out = parseReviewResponse(Tokens(parser.reply.val))

\* C18: a reply that is prose around a JSON array of issue objects gives
\* that array as issues, every issue object of it, and no summary.
C18_ArrayInProse ==
    ( /\ parser.pc = "returned"
      /\ parser.reply.lead = <<Tok("prose")>>
      /\ parser.reply.trail = <<Tok("prose")>>
      /\ parser.reply.val.t = "arr"
      /\ \A k \in 1..Len(parser.reply.val.a) : parser.reply.val.a[k].t = "obj" )
    => /\ parser.out.issues = parser.reply.val.a
       /\ parser.out.summary = JNull

\* ------------------------------------------------------------------
\* waitForElement: a promise settled by a mutation observer or a timer.
\* ------------------------------------------------------------------

\* The number of DOM mutations made while the promise is followed.
MaxMutations == 3

\* The nodes the page's scripts insert, remove and restyle.
Nodes == {"n1", "n2"}

\* A document: which nodes are in the body and which match the selector.
Doms == [Nodes -> [inBody : BOOLEAN, matches : BOOLEAN]]

\* document.querySelector(selector): an element of the document that
\* matches, or null.
querySelector(dom) ==
    IF \E n \in Nodes : dom[n].inBody /\ dom[n].matches THEN "element" ELSE "null"

\* resolve(v) of the promise: the first call settles it, a later call
\* changes nothing.
resolve(w, v) ==
    IF w.state = "pending"
    THEN [w EXCEPT !.state = "fulfilled", !.value = v, !.resolves = @ + 1]
    ELSE [w EXCEPT !.resolves = @ + 1]

\* The state before the call on a document.
WaiterStart(dom) ==
    [pc |-> "start", dom |-> dom, observing |-> FALSE, records |-> FALSE,
     timer |-> "none", state |-> "pending", value |-> "none",
     muts |-> 0, resolves |-> 0]

WaiterInit ==
    /\ waiter \in {WaiterStart(dom) : dom \in Doms}
    /\ isReviewing = FALSE
    /\ currentSettings = "none"
    /\ pc = [c \in Callers |-> "idle"]
    /\ loc = [c \in Callers |-> IdleLoc]
    /\ notification = "none"
    /\ panel = NoPanel
    /\ persisted = [present |-> FALSE, stats |-> ZeroStats]
    /\ passes = 0
    /\ api = ApiIdle
    /\ parser = ParserIdle
    /\ ui = UiIdle
    /\ container = ContainerIdle
    /\ prompt = PromptIdle
    /\ ctx = ContextIdle
    /\ listener = ListenerIdle

\* The promise's executor: the element at once, or an observer on the
\* body's child lists and a timer.
waitForElement ==
    /\ waiter.pc = "start"
    /\ waiter' =
         IF querySelector(waiter.dom) = "element"
         THEN [resolve(waiter, "element") EXCEPT !.pc = "called"]
         ELSE [waiter EXCEPT !.pc = "called", !.observing = TRUE, !.timer = "armed"]

\* A script of the page puts a node into the body: a child-list mutation,
\* of which a connected observer gets a record.
appendChild(n) ==
    /\ waiter.pc = "called"
    /\ waiter.muts < MaxMutations
    /\ ~waiter.dom[n].inBody
    /\ waiter' = [waiter EXCEPT !.dom[n].inBody = TRUE,
                                !.records = @ \/ waiter.observing,
                                !.muts = @ + 1]

\* A script of the page takes a node out of the body: a child-list
\* mutation as well.
removeChild(n) ==
    /\ waiter.pc = "called"
    /\ waiter.muts < MaxMutations
    /\ waiter.dom[n].inBody
    /\ waiter' = [waiter EXCEPT !.dom[n].inBody = FALSE,
                                !.records = @ \/ waiter.observing,
                                !.muts = @ + 1]

\* A script of the page changes a node's class or role: the selector
\* starts or stops matching it. The observer asked for childList and
\* subtree only and gets no record of it.
setAttribute(n) ==
    /\ waiter.pc = "called"
    /\ waiter.muts < MaxMutations
    /\ waiter' = [waiter EXCEPT !.dom[n].matches = ~@, !.muts = @ + 1]

\* The observer's callback, run with the records at the end of the task
\* that made the mutations.
ObserverCallback ==
    /\ waiter.records
    /\ waiter' =
         IF querySelector(waiter.dom) = "element"
         THEN [resolve(waiter, "element") EXCEPT !.records = FALSE, !.observing = FALSE]
         ELSE [waiter EXCEPT !.records = FALSE]

\* The timer's callback, a task of its own: it runs when no observer
\* callback is due.
TimerFires ==
    /\ waiter.timer = "armed"
    /\ ~waiter.records
    /\ waiter' = [resolve(waiter, "null") EXCEPT !.timer = "fired",
                                                 !.observing = FALSE,
                                                 !.records = FALSE]

waiterRest == << mainVars, api, parser, later >>

WaiterNext ==
    \/ waitForElement /\ UNCHANGED waiterRest
    \/ (\E n \in Nodes : appendChild(n)) /\ UNCHANGED waiterRest
    \/ (\E n \in Nodes : removeChild(n)) /\ UNCHANGED waiterRest
    \/ (\E n \in Nodes : setAttribute(n)) /\ UNCHANGED waiterRest
    \/ ObserverCallback /\ UNCHANGED waiterRest
    \/ TimerFires /\ UNCHANGED waiterRest

WaiterSpec == WaiterInit /\ [][WaiterNext]_waiter

\* The call and the two callbacks run when they are due.
WaiterSettle == waitForElement \/ ObserverCallback \/ TimerFires

WaiterFairSpec == WaiterSpec /\ WF_waiter(WaiterSettle)

\* The promise is never rejected, and null is its value only after the timer.
NeverRejects ==
    /\ waiter.state \in {"pending", "fulfilled"}
    /\ waiter.state = "fulfilled" => waiter.value \in {"element", "null"}
    /\ waiter.value = "null" => waiter.timer = "fired"

\* While the promise is pending and no observer callback is due, the
\* document has no matching element: a mutation that made one settled it.
AsSoonAsPresent ==
    ( /\ waiter.pc = "called"
      /\ waiter.state = "pending"
      /\ ~waiter.records )
    => querySelector(waiter.dom) = "null"

\* A call on a document with the element settles with it at once, the
\* timer that finds the promise pending settles it with null, and a
\* settled promise keeps its value.
SettlesOnce ==
    /\ ( waiter.pc = "start" /\ querySelector(waiter.dom) = "element" )
       => waiter'.state = "fulfilled" /\ waiter'.value = "element"
    /\ ( waiter.state = "pending" /\ waiter.timer = "armed" /\ waiter'.timer = "fired" )
       => waiter'.state = "fulfilled" /\ waiter'.value = "null"
    /\ waiter.state = "fulfilled"
       => waiter'.state = "fulfilled" /\ waiter'.value = waiter.value

\* C20: waitForElement always resolves and never rejects: with the element
\* at once when it is present at the call, with the element as soon as a
\* DOM mutation makes it present before the timeout, with null when the
\* timeout comes first; the promise settles exactly once in whatever order
\* the observer's and the timer's callbacks run.
C20_WaitForElement ==
    /\ [](NeverRejects /\ AsSoonAsPresent)
    /\ [][SettlesOnce]_waiter
    /\ <>(waiter.state = "fulfilled")

\* ------------------------------------------------------------------
\* The busy guard after a rejection.
\* ------------------------------------------------------------------

\* C27: a start-review request turned away by the busy guard leaves the
\* busy flag of the pass in flight set: the step that rejects it keeps the
\* flag and the pass, while a caller stands rejected and a pass is under
\* way the state is still Reviewing, and whatever request comes next
\* before that pass ends is rejected as well.
C27_RejectionKeepsFlag ==
    /\ [](\A c \in Callers : (Rejected(c) /\ Active # {}) => isReviewing)
    /\ [][ \A c \in Callers :
             ( /\ isReviewing
               /\ pc[c] \in {"idle", "storage"}
               /\ pc'[c] \notin {"idle", "storage"} )
             => /\ Rejected(c)'
                /\ isReviewing'
                /\ Active' = Active ]_vars

\* The floating button was turned away during the popup's pass, showed its
\* error, was clicked again and was turned away again: the pass goes on.
C27_Witness ==
    /\ Active = {"popup"}
    /\ isReviewing
    /\ notification = "fabError"
    /\ Rejected(Fab)

\* ------------------------------------------------------------------
\* The statistics of a pass that follows an earlier one.
\* ------------------------------------------------------------------

\* reviewStats as an earlier pass (of this page or of another) stored it.
EarlierStats == [files |-> 7, critical |-> 5, warnings |-> 4, suggestions |-> 6]

\* The content script is loaded on a page while chrome.storage.local holds
\* the statistics of an earlier pass.
StatsInit ==
    /\ isReviewing = FALSE
    /\ currentSettings = "none"
    /\ pc = [c \in Callers |-> "idle"]
    /\ loc = [c \in Callers |-> IdleLoc]
    /\ notification = "none"
    /\ panel = NoPanel
    /\ persisted = [present |-> TRUE, stats |-> EarlierStats]
    /\ passes = 0
    /\ api = ApiIdle
    /\ parser = ParserIdle
    /\ waiter = WaiterIdle
    /\ ui = UiIdle
    /\ container = ContainerIdle
    /\ prompt = PromptIdle
    /\ ctx = ContextIdle
    /\ listener = ListenerIdle

StatsSpec == StatsInit /\ [][Next]_vars

\* How many of the issues have the severity.
SeverityCount(issues, severity) ==
    Cardinality({k \in 1..Len(issues) : Prop(issues[k], "severity") = JStr(severity)})

\* The statistics after a record whose reply gave these issues.
WithIssues(stats, issues) ==
    [files |-> stats.files,
     critical |-> stats.critical + SeverityCount(issues, "critical"),
     warnings |-> stats.warnings + SeverityCount(issues, "warning"),
     suggestions |-> stats.suggestions
                     + ( Len(issues) - SeverityCount(issues, "critical")
                                     - SeverityCount(issues, "warning") )]

\* C30: a pass starts its statistics from zero with files the number of
\* records extracted; every reviewed record, also one that gave neither
\* summary nor issues, leaves files as it is and adds its issues to the
\* severity counters, an issue that is neither critical nor warning as a
\* suggestion; a successful pass stores exactly these statistics over
\* whatever was stored before.
C30_StatsOfThisPassOnly ==
    [][ \A c \in Callers :
          /\ (pc[c] = "extracted" /\ pc'[c] = "modelCall")
             => loc'[c].stats = [files |-> Len(loc[c].diffs), critical |-> 0,
                                 warnings |-> 0, suggestions |-> 0]
          /\ (pc[c] = "modelCall" /\ pc'[c] \in {"modelCall", "saving"})
             => \E text \in ModelTexts :
                   /\ loc'[c].stats = WithIssues(loc[c].stats, ParsedReply[text].issues)
                   /\ loc'[c].returned = loc[c].returned + Len(ParsedReply[text].issues)
          /\ (pc[c] = "saving" /\ pc'[c] = "returned" /\ loc'[c].result.success)
             => /\ persisted' = [present |-> TRUE, stats |-> loc[c].stats]
                /\ persisted'.stats.files = Len(loc[c].diffs)
                /\ IssueSum(persisted'.stats) = loc[c].returned ]_vars

\* After the earlier statistics, a pass of two records has ended with
\* success: one record gave nothing, the other a warning and an issue of
\* severity info.
C30_Witness ==
    \E c \in Callers :
        /\ pc[c] = "returned"
        /\ loc[c].result = Success(2)
        /\ persisted = [present |-> TRUE,
                        stats |-> [files |-> 2, critical |-> 0, warnings |-> 1,
                                   suggestions |-> 1]]

\* ------------------------------------------------------------------
\* The notifications and the review panel on the page.
\* ------------------------------------------------------------------

\* The main review pass, its callers and the storage at rest.
MainAtRest ==
    /\ isReviewing = FALSE
    /\ currentSettings = "none"
    /\ pc = [c \in Callers |-> "idle"]
    /\ loc = [c \in Callers |-> IdleLoc]
    /\ notification = "none"
    /\ panel = NoPanel
    /\ persisted = [present |-> FALSE, stats |-> ZeroStats]
    /\ passes = 0

\* How many notifications are shown, and how many records are rendered.
MaxNotes == 2
MaxRenders == 2

\* The filters of the panel's buttons.
Filters == {"all", "summary", "critical", "warning", "suggestion"}

\* What a record's review gives displayIssues: whether there is a summary,
\* and the severities of the issues.
Renders ==
    { [summary |-> TRUE, issues |-> <<"critical">>],
      [summary |-> FALSE, issues |-> <<"warning", "info">>],
      [summary |-> FALSE, issues |-> <<"suggestion">>] }

\* The labels of the five filter buttons: the number each shows, -1 for a
\* button that shows no number yet.
NoLabels == [all |-> -1, summary |-> -1, critical |-> -1, warning |-> -1, suggestion |-> -1]

\* The page when the content script is loaded: no notification, no panel.
UiStart ==
    [pc |-> "loaded",
     notes |-> <<>>,        \* every notification made: on the page?, its timer
     panels |-> 0,          \* elements with the id ai-review-panel
     visible |-> FALSE, minimized |-> FALSE,
     active |-> "all",      \* the filter button with the class active
     labels |-> NoLabels,
     elems |-> <<>>,        \* the .ai-summary and .ai-issue elements
     renders |-> 0]

UiInit ==
    /\ MainAtRest
    /\ api = ApiIdle
    /\ parser = ParserIdle
    /\ waiter = WaiterIdle
    /\ ui = UiStart
    /\ container = ContainerIdle
    /\ prompt = PromptIdle
    /\ ctx = ContextIdle
    /\ listener = ListenerIdle

\* showNotification on the notifications of the page: every notification
\* present is removed, a new one is appended and its timer started.
ShownKeepingOld(notes) ==
    Append(notes, [present |-> TRUE, timer |-> "4000"])

ShownNotification(notes) ==
    Append([i \in 1..Len(notes) |-> [notes[i] EXCEPT !.present = FALSE]],
           [present |-> TRUE, timer |-> "4000"])

\* A call of showNotification by the review pass, the copy button or the
\* floating button.
showNotification ==
    /\ Len(ui.notes) < MaxNotes
    /\ ui' = [ui EXCEPT !.notes = ShownNotification(@)]

\* The first timer of notification i: the hide class is added and the
\* second timer started.
TimerHides(i) ==
    /\ i \in 1..Len(ui.notes)
    /\ ui.notes[i].timer = "4000"
    /\ ui' = [ui EXCEPT !.notes[i].timer = "300"]

\* The second timer of notification i: notification.remove().
TimerRemoves(i) ==
    /\ i \in 1..Len(ui.notes)
    /\ ui.notes[i].timer = "300"
    /\ ui' = [ui EXCEPT !.notes[i].timer = "over", !.notes[i].present = FALSE]

\* The elements a record's review appends to the list. display is the
\* display an element is rendered with: a new element has no style of its
\* own and is rendered as the block its div is.
NewElements(r) ==
    (IF r.summary THEN << [kind |-> "summary", severity |-> "", display |-> "block"] >> ELSE <<>>)
    \o [k \in 1..Len(r.issues) |->
          [kind |-> "issue", severity |-> r.issues[k], display |-> "block"]]

\* How many of the elements are of the kind, or issues of the severity.
KindCount(elems, kind) ==
    Cardinality({k \in 1..Len(elems) : elems[k].kind = kind})

IssueCount(elems, severity) ==
    Cardinality({k \in 1..Len(elems) : elems[k].kind = "issue" /\ elems[k].severity = severity})

\* updateFilterCounts: the labels from the elements now in the document.
updateFilterCounts(elems) ==
    [all |-> KindCount(elems, "summary") + KindCount(elems, "issue"),
     summary |-> KindCount(elems, "summary"),
     critical |-> IssueCount(elems, "critical"),
     warning |-> IssueCount(elems, "warning"),
     suggestion |-> IssueCount(elems, "suggestion")]

\* A displayIssues that makes a panel at every call.
PanelsAfterDisplayAlwaysNew(panels) == panels + 1

\* let panel = getElementById(...); if (!panel) panel = createIssuesPanel()
PanelsAfterDisplay(panels) == IF panels = 0 THEN 1 ELSE panels

\* displayIssues(diff, reviewResult): the panel is made when there is
\* none, the elements are appended, the panel is shown and the labels are
\* counted again.
DisplayIssues(r) ==
    /\ ui.renders < MaxRenders
    /\ LET fresh == ui.panels = 0
           elems == (IF fresh THEN <<>> ELSE ui.elems) \o NewElements(r)
       IN ui' = [ui EXCEPT !.panels = PanelsAfterDisplay(@),
                           !.minimized = IF fresh THEN FALSE ELSE @,
                           !.active = IF fresh THEN "all" ELSE @,
                           !.elems = elems,
                           !.visible = TRUE,
                           !.labels = updateFilterCounts(elems),
                           !.renders = @ + 1]

\* The display style filterIssues gives an element.
Styled(e, filter) ==
    [e EXCEPT !.display =
        IF filter = "all" THEN "block"
        ELSE IF filter = "summary"
        THEN (IF e.kind = "summary" THEN "block" ELSE "none")
        ELSE IF e.kind = "issue" /\ e.severity = filter THEN "block" ELSE "none"]

\* A click on a filter button of the panel: the button becomes the active
\* one, filterIssues restyles every element and counts the labels again.
FilterClick(filter) ==
    /\ ui.panels > 0 /\ ui.visible
    /\ ui' = [ui EXCEPT !.active = filter,
                        !.elems = [k \in 1..Len(@) |-> Styled(@[k], filter)],
                        !.labels = updateFilterCounts(ui.elems)]

\* A sequence without its k-th element.
Without(seq, k) == [j \in 1..(Len(seq) - 1) |-> IF j < k THEN seq[j] ELSE seq[j + 1]]

\* A click on the dismiss button of a displayed issue: el.remove().
Dismiss(k) ==
    /\ ui.panels > 0 /\ ui.visible /\ ~ui.minimized
    /\ k \in 1..Len(ui.elems)
    /\ ui.elems[k].kind = "issue"
    /\ ui.elems[k].display # "none"
    /\ ui' = [ui EXCEPT !.elems = Without(@, k)]

\* A click on the close button: the class visible is taken off.
CloseClick ==
    /\ ui.panels > 0 /\ ui.visible
    /\ ui' = [ui EXCEPT !.visible = FALSE]

\* A click on the minimize button: the class minimized is toggled.
MinimizeClick ==
    /\ ui.panels > 0 /\ ui.visible
    /\ ui' = [ui EXCEPT !.minimized = ~@]

\* clearAllComments: the panel is removed with all it holds, every
\* notification is removed and one is shown.
clearAllComments ==
    /\ Len(ui.notes) < MaxNotes
    /\ ui' = [ui EXCEPT !.panels = IF @ > 0 THEN @ - 1 ELSE 0,
                        !.visible = FALSE,
                        !.minimized = FALSE,
                        !.active = "all",
                        !.labels = NoLabels,
                        !.elems = <<>>,
                        !.notes = ShownNotification(@)]

uiRest == << mainVars, api, parser, waiter, container, prompt, ctx, listener >>

UiNext ==
    \/ showNotification /\ UNCHANGED uiRest
    \/ (\E i \in 1..Len(ui.notes) : TimerHides(i)) /\ UNCHANGED uiRest
    \/ (\E i \in 1..Len(ui.notes) : TimerRemoves(i)) /\ UNCHANGED uiRest
    \/ (\E r \in Renders : DisplayIssues(r)) /\ UNCHANGED uiRest
    \/ (\E filter \in Filters : FilterClick(filter)) /\ UNCHANGED uiRest
    \/ (\E k \in 1..Len(ui.elems) : Dismiss(k)) /\ UNCHANGED uiRest
    \/ CloseClick /\ UNCHANGED uiRest
    \/ MinimizeClick /\ UNCHANGED uiRest
    \/ clearAllComments /\ UNCHANGED uiRest

UiSpec == UiInit /\ [][UiNext]_ui

\* Every timer that was started fires.
NoteTimerFires == \E i \in 1..Len(ui.notes) : TimerHides(i) \/ TimerRemoves(i)

UiFairSpec == UiSpec /\ WF_ui(NoteTimerFires)

\* The notifications now on the page.
Present == {i \in 1..Len(ui.notes) : ui.notes[i].present}

\* C21: at most one notification is on the page; a call that shows one
\* (showNotification, clearAllComments) leaves the new one alone on the
\* page; the timer of a notification removes that notification and no
\* other; every notification is removed in the end.
C21_OneNotification ==
    /\ [](Cardinality(Present) <= 1)
    /\ [][ /\ Len(ui'.notes) > Len(ui.notes)
              => Present' = {Len(ui'.notes)}
           /\ \A i \in 1..Len(ui.notes) :
                (ui.notes[i].timer = "300" /\ ui'.notes[i].timer = "over")
                => /\ ~ui'.notes[i].present
                   /\ \A j \in 1..Len(ui.notes) : j # i => ui'.notes[j] = ui.notes[j] ]_ui
    /\ []<>(Present = {})

\* The first notification was replaced by the second, and its own timers
\* have fired since: the second is still there.
C21_Witness ==
    /\ Len(ui.notes) = 2
    /\ ui.notes[1] = [present |-> FALSE, timer |-> "over"]
    /\ ui.notes[2] = [present |-> TRUE, timer |-> "4000"]

\* C26: the filter buttons show the population of the panel, after a
\* record is rendered, after a filter is chosen and after an issue is
\* dismissed: All the summaries and issues together, Summary the
\* summaries, Critical, Warning and Suggestions the issues of the severity.
C26_LabelsAreThePopulation ==
    (ui.pc = "loaded" /\ ui.panels > 0)
    => /\ ui.labels.all = Len(ui.elems)
       /\ ui.labels.summary = KindCount(ui.elems, "summary")
       /\ ui.labels.critical = IssueCount(ui.elems, "critical")
       /\ ui.labels.warning = IssueCount(ui.elems, "warning")
       /\ ui.labels.suggestion = IssueCount(ui.elems, "suggestion")

\* C28: the page never holds two review panels: a render makes one only
\* when there is none, a click on close or minimize leaves the panel and
\* its elements on the page, clearComments leaves none.
C28_OnePanel ==
    /\ [](ui.pc = "loaded" => ui.panels <= 1)
    /\ [][ /\ ui'.renders > ui.renders
              => ui'.panels = 1 /\ (ui.panels = 1 => Len(ui'.elems) >= Len(ui.elems))
           /\ (ui.visible /\ ~ui'.visible /\ Len(ui'.notes) = Len(ui.notes))
              => ui'.panels = ui.panels /\ ui'.elems = ui.elems
           /\ (ui'.minimized # ui.minimized /\ Len(ui'.notes) = Len(ui.notes)
                 /\ ui'.renders = ui.renders)
              => ui'.panels = ui.panels /\ ui'.elems = ui.elems
           /\ (Len(ui'.notes) > Len(ui.notes) /\ ui'.elems # ui.elems)
              => ui'.panels = 0 ]_ui

\* Two records were rendered, both into the one panel, which is shown.
C28_Witness ==
    /\ ui.pc = "loaded"
    /\ ui.renders = 2
    /\ ui.panels = 1
    /\ ui.visible
    /\ KindCount(ui.elems, "summary") = 2

\* C29: while a filter other than All is the active one, an issue element
\* is displayed exactly when the filter admits it: none under Summary,
\* those of the severity under a severity filter.
C29_FilterStaysApplied ==
    (ui.pc = "loaded" /\ ui.panels > 0 /\ ui.active # "all")
    => \A k \in 1..Len(ui.elems) :
          ui.elems[k].kind = "issue"
          => (ui.elems[k].display # "none" <=> ui.elems[k].severity = ui.active)

\* ------------------------------------------------------------------
\* extractDiffFromContainer and the strategy of the file diff containers.
\* ------------------------------------------------------------------

\* How many line elements a container has.
MaxLines == 3

\* The words of the class test that the class names of a line element and
\* of its parent contain.
LineClasses ==
    { {"add"}, {"delete"}, {}, {"add", "delete"}, {"old"}, {"new"} }

\* The length of a line's trimmed text: none, short, long.
TextLengths == {0, 8, 30}

\* A line element: its classes and its text.
LineElement(class, length) == [class |-> class, length |-> length]

LineElements == { LineElement(class, length) : class \in LineClasses, length \in TextLengths }

RECURSIVE LinesUpTo(_)
LinesUpTo(n) ==
    IF n = 0 THEN { <<>> }
    ELSE LET shorter == LinesUpTo(n - 1)
         IN shorter \cup { Append(ls, l) : ls \in { x \in shorter : Len(x) = n - 1 },
                                           l \in LineElements }

\* combinedClass.includes('add') || ... 'insert' ... 'new' ... 'plus'
isAddition(line) == line.class \cap {"add", "insert", "new", "plus"} # {}

\* combinedClass.includes('delete') || ... 'remove' ... 'old' ... 'minus'
isDeletion(line) == line.class \cap {"delete", "remove", "old", "minus"} # {}

\* The pieces of content: a marked line ("+ text\n", "  text\n") or, for
\* the container's own text, the text of a line as it stands.
Piece(mark, index) == [mark |-> mark, line |-> index]

\* The forEach over the lines: content, additions and deletions so far.
RECURSIVE ScanLines(_, _, _)
ScanLines(lines, index, acc) ==
    IF index > Len(lines) THEN acc
    ELSE LET line == lines[index]
         IN IF line.length = 0 THEN ScanLines(lines, index + 1, acc)
            ELSE IF isAddition(line)
            THEN ScanLines(lines, index + 1,
                     [acc EXCEPT !.additions = Append(@, index),
                                 !.content = Append(@, Piece("+ ", index))])
            ELSE IF isDeletion(line)
            THEN ScanLines(lines, index + 1,
                     [acc EXCEPT !.deletions = Append(@, index)])
            ELSE ScanLines(lines, index + 1,
                     [acc EXCEPT !.content = Append(@, Piece("  ", index))])

\* container.innerText: the text of every line of the container.
innerText(lines) ==
    LET withText == {k \in 1..Len(lines) : lines[k].length > 0}
        RECURSIVE Pieces_(_)
        Pieces_(k) ==
            IF k > Len(lines) THEN <<>>
            ELSE (IF k \in withText THEN << Piece("", k) >> ELSE <<>>) \o Pieces_(k + 1)
    IN Pieces_(1)

\* extractDiffFromContainer: the scan, then the two fall-backs for a
\* content that is empty.
extractDiffFromContainer(lines) ==
    LET scanned == ScanLines(lines, 1, [content |-> <<>>, additions |-> <<>>, deletions |-> <<>>])
        fromAdditions ==
            IF scanned.content = <<>> /\ scanned.additions # <<>>
            THEN [scanned EXCEPT !.content =
                     [k \in 1..Len(scanned.additions) |-> Piece("+ ", scanned.additions[k])]]
            ELSE scanned
    IN IF fromAdditions.content = <<>>
       THEN [fromAdditions EXCEPT !.content = innerText(lines)]
       ELSE fromAdditions

\* content.trim().length: each piece is its mark, its text and a line
\* break; the trim takes the last line break off and the blanks of a
\* leading "  " mark.
RECURSIVE PiecesLength(_, _)
PiecesLength(lines, content) ==
    IF content = <<>> THEN 0
    ELSE Len(Head(content).mark) + lines[Head(content).line].length + 1
         + PiecesLength(lines, Tail(content))

TrimmedLength(lines, content) ==
    IF content = <<>> THEN 0
    ELSE PiecesLength(lines, content) - 1
         - (IF Head(content).mark = "  " THEN 2 ELSE 0)

\* extractFromFileDiffContainers keeps a record whose content is longer
\* than 20 characters.
Emitted(lines, diff) == TrimmedLength(lines, diff.content) > 20

ContainerInit ==
    /\ MainAtRest
    /\ api = ApiIdle
    /\ parser = ParserIdle
    /\ waiter = WaiterIdle
    /\ ui = UiIdle
    /\ container \in { [pc |-> "called", lines |-> lines] : lines \in LinesUpTo(MaxLines) }
    /\ prompt = PromptIdle
    /\ ctx = ContextIdle
    /\ listener = ListenerIdle

\* containers.forEach(container => ...) for one container.
ContainerReturns ==
    /\ container.pc = "called"
    /\ LET diff == extractDiffFromContainer(container.lines)
       IN container' = [pc |-> "returned", lines |-> container.lines, diff |-> diff,
                        emitted |-> Emitted(container.lines, diff)]

containerRest == << mainVars, api, parser, waiter, ui, prompt, ctx, listener >>

ContainerNext == ContainerReturns /\ UNCHANGED containerRest

ContainerSpec == ContainerInit /\ [][ContainerNext]_container

\* The lines whose text the content holds.
LinesIn(content) == { content[k].line : k \in 1..Len(content) }

\* C22: in an emitted record, no line classified as a deletion has its
\* text in the content or among the additions, whatever the container's
\* lines are, all of them deletions included.
C22_NoDeletedText ==
    (container.pc = "returned" /\ container.emitted)
    => \A k \in 1..Len(container.diff.deletions) :
          LET deleted == container.diff.deletions[k]
          IN /\ deleted \notin LinesIn(container.diff.content)
             /\ deleted \notin { container.diff.additions[j] :
                                   j \in 1..Len(container.diff.additions) }

\* ------------------------------------------------------------------
\* buildReviewPrompt.
\* ------------------------------------------------------------------

\* How many additions a record holds.
MaxAdditions == 2

\* A string is kept as the runs of characters it is made of: each run is
\* the first len characters of a named text.
Run(of, len) == [of |-> of, len |-> len]

RECURSIVE StrLen(_)
StrLen(str) == IF str = <<>> THEN 0 ELSE Head(str).len + StrLen(Tail(str))

\* str.substring(0, n)
RECURSIVE substring0(_, _)
substring0(str, n) ==
    IF str = <<>> \/ n <= 0 THEN <<>>
    ELSE IF Head(str).len <= n
    THEN << Head(str) >> \o substring0(Tail(str), n - Head(str).len)
    ELSE << Run(Head(str).of, n) >>

\* strs.join('\n')
RECURSIVE join(_)
join(strs) ==
    IF strs = <<>> THEN <<>>
    ELSE IF Len(strs) = 1 THEN strs[1]
    ELSE strs[1] \o << Run("\n", 1) >> \o join(Tail(strs))

\* The texts of the records: the content of a record of the page, the
\* content of an addition, the two contents of a remote record.
Contents == { <<>>, <<Run("content", 120)>>, <<Run("content", 15000)>>, <<Run("content", 15001)>> }

AdditionContents == { <<Run("added", 40)>>, <<Run("added", 14990)>> }

RemoteContents == { <<>>, <<Run("file", 300)>>, <<Run("file", 20000)>>, <<Run("file", 50000)>> }

RECURSIVE AdditionsUpTo(_)
AdditionsUpTo(n) ==
    IF n = 0 THEN { <<>> }
    ELSE LET shorter == AdditionsUpTo(n - 1)
         IN shorter \cup { Append(as, a) : as \in { x \in shorter : Len(x) = n - 1 },
                                           a \in AdditionContents }

\* The records reviewDiff gets: those of the page, with additions or
\* without the field, and those of the remote content.
PageDiffs ==
    { [isApiDiff |-> FALSE, content |-> content, hasAdditions |-> TRUE, additions |-> additions] :
         content \in Contents, additions \in AdditionsUpTo(MaxAdditions) }
    \cup { [isApiDiff |-> FALSE, content |-> content, hasAdditions |-> FALSE, additions |-> <<>>] :
         content \in Contents }

RemoteDiffs ==
    { [isApiDiff |-> TRUE, originalContent |-> original, newContent |-> new] :
         original \in RemoteContents, new \in RemoteContents \ { <<>> } }

\* settings: the review depth and the focus areas that are switched on.
Depths == {"quick", "standard", "thorough", "other"}

Settings ==
    { [reviewDepth |-> depth, focusAreas |-> areas] :
         depth \in Depths, areas \in SUBSET {"bugs", "security"} }

\* depthInstructions[settings.reviewDepth] || depthInstructions.standard
depthInstruction(settings) ==
    IF settings.reviewDepth \in {"quick", "standard", "thorough"}
    THEN settings.reviewDepth ELSE "standard"

\* A test of diff.additions alone, which an empty array passes: the code
\* is then the empty join and not the content.
buildReviewPromptAnyAdditions(diff, settings, current) ==
    IF diff.isApiDiff
    THEN [depth |-> depthInstruction(settings), focusAreas |-> settings.focusAreas,
          code |-> <<>>,
          original |-> substring0(diff.originalContent, 20000),
          new |-> substring0(diff.newContent, 20000)]
    ELSE LET codeToReview ==
                 IF diff.hasAdditions THEN join(diff.additions) ELSE diff.content
         IN [depth |-> depthInstruction(settings), focusAreas |-> settings.focusAreas,
             code |-> substring0(codeToReview, 15000),
             original |-> <<>>, new |-> <<>>]

\* buildReviewPrompt(diff, settings), called while the module's
\* currentSettings is current: the parts of the template it fills in.
buildReviewPrompt(diff, settings, current) ==
    IF diff.isApiDiff
    THEN [depth |-> depthInstruction(settings), focusAreas |-> settings.focusAreas,
          code |-> <<>>,
          original |-> substring0(diff.originalContent, 20000),
          new |-> substring0(diff.newContent, 20000)]
    ELSE LET codeToReview ==
                 IF diff.hasAdditions /\ Len(diff.additions) > 0
                 THEN join(diff.additions)
                 ELSE diff.content
         IN [depth |-> depthInstruction(settings), focusAreas |-> settings.focusAreas,
             code |-> substring0(codeToReview, 15000),
             original |-> <<>>, new |-> <<>>]

PromptInit ==
    /\ MainAtRest
    /\ api = ApiIdle
    /\ parser = ParserIdle
    /\ waiter = WaiterIdle
    /\ ui = UiIdle
    /\ container = ContainerIdle
    /\ prompt \in { [pc |-> "called", diff |-> diff, settings |-> settings, current |-> current] :
                       diff \in PageDiffs \cup RemoteDiffs,
                       settings \in Settings,
                       current \in { [reviewDepth |-> "quick", focusAreas |-> {}],
                                     [reviewDepth |-> "thorough", focusAreas |-> {"bugs"}] } }
    /\ ctx = ContextIdle
    /\ listener = ListenerIdle

\* const prompt = buildReviewPrompt(diff, settings)
PromptBuilt ==
    /\ prompt.pc = "called"
    /\ prompt' = [pc |-> "built", diff |-> prompt.diff, settings |-> prompt.settings,
                  current |-> prompt.current,
                  out |-> buildReviewPrompt(prompt.diff, prompt.settings, prompt.current)]

promptRest == << mainVars, api, parser, waiter, ui, container, ctx, listener >>

PromptNext == PromptBuilt /\ UNCHANGED promptRest

PromptSpec == PromptInit /\ [][PromptNext]_prompt

\* part is the first characters of whole, at most limit of them and all
\* of whole when it is no longer than limit.
IsCutOf(part, whole, limit) ==
    /\ StrLen(part) = (IF StrLen(whole) <= limit THEN StrLen(whole) ELSE limit)
    /\ \A k \in 1..Len(part) :
          /\ k <= Len(whole)
          /\ part[k].of = whole[k].of
          /\ IF k < Len(part) THEN part[k] = whole[k] ELSE part[k].len <= whole[k].len

\* The contents of the additions one after the other, each on its line.
RECURSIVE OnePerLine(_, _)
OnePerLine(additions, k) ==
    IF k > Len(additions) THEN <<>>
    ELSE additions[k] \o (IF k < Len(additions) THEN << Run("\n", 1) >> ELSE <<>>)
         \o OnePerLine(additions, k + 1)

\* C23: the prompt is determined by the record and the settings passed,
\* not by the settings the module holds; for a record of the page its code
\* is the first 15000 characters of the additions' contents put together
\* when the record has additions, of its content otherwise; for a record
\* of the remote content the original and the new content are each cut to
\* their first 20000 characters.
C23_PromptCode ==
    prompt.pc = "built"
    => /\ prompt.out.depth = (IF prompt.settings.reviewDepth = "other"
                              THEN "standard" ELSE prompt.settings.reviewDepth)
       /\ prompt.out.focusAreas = prompt.settings.focusAreas
       /\ ~prompt.diff.isApiDiff
          => IF prompt.diff.hasAdditions /\ prompt.diff.additions # <<>>
             THEN IsCutOf(prompt.out.code, OnePerLine(prompt.diff.additions, 1), 15000)
             ELSE IsCutOf(prompt.out.code, prompt.diff.content, 15000)
       /\ prompt.diff.isApiDiff
          => /\ IsCutOf(prompt.out.original, prompt.diff.originalContent, 20000)
             /\ IsCutOf(prompt.out.new, prompt.diff.newContent, 20000)

\* A record of the page with two long additions and a content: the code is
\* the first addition, a line break and the start of the second.
C23_Witness ==
    /\ prompt.pc = "built"
    /\ ~prompt.diff.isApiDiff
    /\ prompt.diff.additions = << <<Run("added", 14990)>>, <<Run("added", 14990)>> >>
    /\ prompt.diff.content = <<Run("content", 120)>>
    /\ prompt.out.code = << Run("added", 14990), Run("\n", 1), Run("added", 9) >>
    /\ prompt.settings.reviewDepth # prompt.current.reviewDepth

\* ------------------------------------------------------------------
\* getADOContext and the REST addresses built from the context.
\* ------------------------------------------------------------------

\* An address is kept as its pieces: "/" and "." each a piece of their
\* own, a run of digits, and a word for any other run of characters
\* (the scheme "https:" is a word).
Word(w) == [t |-> "w", s |-> w]
Digits(d) == [t |-> "d", s |-> d]
Slash == [t |-> "/", s |-> "/"]
Dot == [t |-> ".", s |-> "."]

\* The names an address is made of: some hold a dot or a dash.
OrgNames == { <<Word("org")>>, <<Word("my-org")>> }
ProjectNames == { <<Word("proj")>>, <<Word("my"), Dot, Word("proj")>> }
RepoNames == { <<Word("repo")>>, <<Word("re"), Dot, Word("po")>> }
PrIds == { "12", "7" }
Endings == { <<>>, <<Slash>>, <<Word("?_a=files")>> }

Scheme == << Word("https:"), Slash, Slash >>
CurrentHost == << Word("dev"), Dot, Word("azure"), Dot, Word("com") >>
LegacyHost(org) == org \o << Dot, Word("visualstudio"), Dot, Word("com") >>

\* The shapes of the addresses the content script is loaded on: the pull
\* request page of the current and of the legacy host, and pages that are
\* no pull request page (the repository's files, the list of pull
\* requests).
Shapes == {"current", "legacy", "files", "list", "legacyFiles"}

Address(shape, org, project, repo, id, ending) ==
    LET host == IF shape \in {"current", "files", "list"}
                THEN CurrentHost \o <<Slash>> \o org
                ELSE LegacyHost(org)
        path == <<Slash>> \o project \o << Slash, Word("_git"), Slash >> \o repo
    IN [shape |-> shape, org |-> org, project |-> project, repo |-> repo, id |-> id,
        href |-> Scheme \o host \o path
                 \o ( CASE shape \in {"current", "legacy"} ->
                             << Slash, Word("pullrequest"), Slash, Digits(id) >> \o ending
                        [] shape = "list" -> << Slash, Word("pullrequests") >> \o ending
                        [] OTHER -> ending )]

Addresses ==
    { Address(shape, org, project, repo, id, ending) :
        shape \in Shapes, org \in OrgNames, project \in ProjectNames,
        repo \in RepoNames, id \in PrIds, ending \in Endings }

\* toks[from..to]
Slice(toks, from, to) == [k \in 1..(to - from + 1) |-> toks[from + k - 1]]

\* The literal pieces are at position i.
LiteralAt(toks, i, literal) ==
    /\ i + Len(literal) - 1 <= Len(toks)
    /\ \A k \in 1..Len(literal) : toks[i + k - 1] = literal[k]

\* The place of the first "/" at or after i, and of the last "." before i
\* (0 when there is none).
NextSlash(toks, i) ==
    IF \E k \in i..Len(toks) : toks[k] = Slash
    THEN Min({k \in i..Len(toks) : toks[k] = Slash}) ELSE 0

DotBefore(toks, i) ==
    IF \E k \in 1..(i - 1) : toks[k] = Dot
    THEN Max({k \in 1..(i - 1) : toks[k] = Dot}) ELSE 0

NoMatch == [found |-> FALSE]

\* ([^\/]+)\/_git\/([^\/]+)\/pullrequest\/(\d+) from position i: each
\* group is the run of pieces up to the next "/", and may not be empty.
PathMatch(toks, i) ==
    LET s1 == NextSlash(toks, i)
        s2 == IF s1 = 0 THEN 0 ELSE
              IF LiteralAt(toks, s1, << Slash, Word("_git"), Slash >>)
              THEN NextSlash(toks, s1 + 3) ELSE 0
    IN IF s1 = 0 \/ s1 = i \/ s2 = 0 \/ s2 = s1 + 3 THEN NoMatch
       ELSE IF LiteralAt(toks, s2, << Slash, Word("pullrequest"), Slash >>)
               /\ s2 + 3 <= Len(toks) /\ toks[s2 + 3].t = "d"
       THEN [found |-> TRUE,
             project |-> Slice(toks, i, s1 - 1),
             repo |-> Slice(toks, s1 + 3, s2 - 1),
             prId |-> toks[s2 + 3].s]
       ELSE NoMatch

\* url.match(/dev\.azure\.com\/([^\/]+)\/.../): the leftmost place where
\* the expression matches.
devAzureMatch(toks) ==
    LET literal == CurrentHost \o <<Slash>>
        after(i) == i + Len(literal)
        orgEnd(i) == NextSlash(toks, after(i))
        ok(i) == /\ LiteralAt(toks, i, literal)
                 /\ orgEnd(i) > after(i)
                 /\ PathMatch(toks, orgEnd(i) + 1).found
        places == {i \in 1..Len(toks) : ok(i)}
    IN IF places = {} THEN NoMatch
       ELSE LET i == Min(places)
            IN [PathMatch(toks, orgEnd(i) + 1) EXCEPT !.found = TRUE]
               @@ [org |-> Slice(toks, after(i), orgEnd(i) - 1)]

\* url.match(/([^\.]+)\.visualstudio\.com\/([^\/]+)\/.../): the first
\* group is every character since the last "." before, or since the start
\* of the address, "/" and ":" included.
vsMatch(toks) ==
    LET literal == << Dot, Word("visualstudio"), Dot, Word("com"), Slash >>
        start(j) == DotBefore(toks, j) + 1
        ok(j) == /\ LiteralAt(toks, j, literal)
                 /\ start(j) < j
                 /\ PathMatch(toks, j + Len(literal)).found
        places == {j \in 1..Len(toks) : ok(j)}
    IN IF places = {} THEN NoMatch
       ELSE LET j == Min(places)
            IN [PathMatch(toks, j + Len(literal)) EXCEPT !.found = TRUE]
               @@ [org |-> Slice(toks, start(j), j - 1)]

NoContext == [found |-> FALSE]

\* getADOContext on window.location.href.
getADOContext(href) ==
    IF devAzureMatch(href).found
    THEN [found |-> TRUE, org |-> devAzureMatch(href).org,
          project |-> devAzureMatch(href).project, repo |-> devAzureMatch(href).repo,
          prId |-> devAzureMatch(href).prId, isLegacy |-> FALSE]
    ELSE IF vsMatch(href).found
    THEN [found |-> TRUE, org |-> vsMatch(href).org,
          project |-> vsMatch(href).project, repo |-> vsMatch(href).repo,
          prId |-> vsMatch(href).prId, isLegacy |-> TRUE]
    ELSE NoContext

\* The start of iterationsUrl, up to the project.
iterationsUrl(context) ==
    IF context.isLegacy
    THEN Scheme \o context.org \o << Dot, Word("visualstudio"), Dot, Word("com"), Slash >>
         \o context.project
    ELSE Scheme \o CurrentHost \o <<Slash>> \o context.org \o <<Slash>> \o context.project

ContextInit ==
    /\ MainAtRest
    /\ api = ApiIdle
    /\ parser = ParserIdle
    /\ waiter = WaiterIdle
    /\ ui = UiIdle
    /\ container = ContainerIdle
    /\ prompt = PromptIdle
    /\ ctx \in { [pc |-> "called", address |-> a] : a \in Addresses }
    /\ listener = ListenerIdle

\* const context = getADOContext()
ContextReturns ==
    /\ ctx.pc = "called"
    /\ ctx' = [pc |-> "returned", address |-> ctx.address,
               context |-> getADOContext(ctx.address.href)]

contextRest == << mainVars, api, parser, waiter, ui, container, prompt, listener >>

ContextNext == ContextReturns /\ UNCHANGED contextRest

ContextSpec == ContextInit /\ [][ContextNext]_ctx

\* C25: for the pull request page of the current and of the legacy host
\* the context holds the address's organization, project, repository and
\* id, isLegacy tells which host it is, and the REST address built from
\* the context starts as the page's own address does; every other address
\* gives no context.
C25_ContextFromAddress ==
    ctx.pc = "returned"
    => IF ctx.address.shape \in {"current", "legacy"}
       THEN /\ ctx.context.found
            /\ ctx.context.org = ctx.address.org
            /\ ctx.context.project = ctx.address.project
            /\ ctx.context.repo = ctx.address.repo
            /\ ctx.context.prId = ctx.address.id
            /\ ctx.context.isLegacy = (ctx.address.shape = "legacy")
            /\ IsPrefix(iterationsUrl(ctx.context), ctx.address.href)
       ELSE ~ctx.context.found

\* ------------------------------------------------------------------
\* The onMessage listener and the replies it sends.
\* ------------------------------------------------------------------

\* How many requests the popup sends.
MaxRequests == 3

\* request.action of the requests the popup sends.
Commands == {"ping", "startReview", "clearComments"}

\* sendResponse({ success: true })
Ack == [success |-> TRUE]

\* How the body of handleReview's try ends: with no records, with every
\* record reviewed and the statistics stored, or with an exception.
PassOutcomes == {"noChanges", "complete", "throws"}

\* A handleReview whose catch block throws the error on.
handleReviewEndsRethrowing(outcome) ==
    CASE outcome = "noChanges" -> [state |-> "fulfilled", value |-> Failure(NoChangesFound)]
      [] outcome = "complete" -> [state |-> "fulfilled", value |-> Success(1)]
      [] OTHER -> [state |-> "rejected", value |-> Failure(ModelCallFailed)]

\* What the promise of handleReview settles to: a return of the try, or
\* the return of the catch block.
handleReviewEnds(outcome) ==
    CASE outcome = "noChanges" -> [state |-> "fulfilled", value |-> Failure(NoChangesFound)]
      [] outcome = "complete" -> [state |-> "fulfilled", value |-> Success(1)]
      [] OTHER -> [state |-> "fulfilled", value |-> Failure(ModelCallFailed)]

ListenerStart ==
    [pc |-> "listening",
     isReviewing |-> FALSE,
     fab |-> FALSE,          \* the floating button's pass is in flight
     requests |-> <<>>]      \* each request: its action, the promise of
                             \* handleReview, the replies sent

ListenerInit ==
    /\ MainAtRest
    /\ api = ApiIdle
    /\ parser = ParserIdle
    /\ waiter = WaiterIdle
    /\ ui = UiIdle
    /\ container = ContainerIdle
    /\ prompt = PromptIdle
    /\ ctx = ContextIdle
    /\ listener = ListenerStart

NewRequest(action, promise, value, replies) ==
    [action |-> action, promise |-> promise, value |-> value, replies |-> replies]

\* {action: 'ping'}: the reply is sent in the listener.
OnPing ==
    /\ Len(listener.requests) < MaxRequests
    /\ listener' = [listener EXCEPT
          !.requests = Append(@, NewRequest("ping", "none", Ack, <<Ack>>))]

\* {action: 'clearComments'}: clearAllComments, then the reply.
OnClearComments ==
    /\ Len(listener.requests) < MaxRequests
    /\ listener' = [listener EXCEPT
          !.requests = Append(@, NewRequest("clearComments", "none", Ack, <<Ack>>))]

\* {action: 'startReview'}: handleReview runs to its first await or to
\* the return of the busy guard; the reply waits for its promise.
OnStartReview ==
    /\ Len(listener.requests) < MaxRequests
    /\ IF listener.isReviewing
       THEN listener' = [listener EXCEPT
               !.requests = Append(@, NewRequest("startReview", "fulfilled",
                                                 Failure(AlreadyInProgress), <<>>))]
       ELSE listener' = [listener EXCEPT
               !.isReviewing = TRUE,
               !.requests = Append(@, NewRequest("startReview", "pending", Ack, <<>>))]

\* The pass of request r ends: finally clears the flag and the promise
\* settles.
PassEnds(r, outcome) ==
    /\ r \in 1..Len(listener.requests)
    /\ listener.requests[r].promise = "pending"
    /\ listener' = [listener EXCEPT
          !.isReviewing = FALSE,
          !.requests[r].promise = handleReviewEnds(outcome).state,
          !.requests[r].value = handleReviewEnds(outcome).value]

\* .then(result => sendResponse(result)) and
\* .catch(error => sendResponse({success: false, error: error.message}))
SendResponse(r) ==
    /\ r \in 1..Len(listener.requests)
    /\ listener.requests[r].promise \in {"fulfilled", "rejected"}
    /\ listener.requests[r].replies = <<>>
    /\ listener' = [listener EXCEPT
          !.requests[r].replies =
              IF listener.requests[r].promise = "fulfilled"
              THEN << listener.requests[r].value >>
              ELSE << Failure(listener.requests[r].value.error) >>]

\* The floating button starts a pass of its own, and the pass ends.
FabPassBegins ==
    /\ ~listener.isReviewing
    /\ listener' = [listener EXCEPT !.isReviewing = TRUE, !.fab = TRUE]

FabPassEnds ==
    /\ listener.fab
    /\ listener' = [listener EXCEPT !.isReviewing = FALSE, !.fab = FALSE]

listenerRest == << mainVars, api, parser, waiter, ui, container, prompt, ctx >>

ListenerNext ==
    \/ OnPing /\ UNCHANGED listenerRest
    \/ OnClearComments /\ UNCHANGED listenerRest
    \/ OnStartReview /\ UNCHANGED listenerRest
    \/ (\E r \in 1..Len(listener.requests), outcome \in PassOutcomes : PassEnds(r, outcome))
         /\ UNCHANGED listenerRest
    \/ (\E r \in 1..Len(listener.requests) : SendResponse(r)) /\ UNCHANGED listenerRest
    \/ FabPassBegins /\ UNCHANGED listenerRest
    \/ FabPassEnds /\ UNCHANGED listenerRest

ListenerSpec == ListenerInit /\ [][ListenerNext]_listener

\* A pass that is under way ends, and a settled promise runs its handler.
ListenerSettle ==
    \E r \in 1..Len(listener.requests) :
        \/ \E outcome \in PassOutcomes : PassEnds(r, outcome)
        \/ SendResponse(r)

ListenerFairSpec == ListenerSpec /\ WF_listener(ListenerSettle)

\* The reply is {success: true, ...} or {success: false, error}.
WellFormed(reply) ==
    /\ "success" \in DOMAIN reply
    /\ reply.success \in BOOLEAN
    /\ ~reply.success => ("error" \in DOMAIN reply /\ reply.error # "")

\* C24: no request gets two replies, every reply is {success: true, ...}
\* or {success: false, error}, ping and clearComments are answered in the
\* listener, the promise of handleReview is never rejected, and every
\* request is answered in the end.
C24_OneReplyEach ==
    /\ [](\A r \in 1..Len(listener.requests) :
            LET request == listener.requests[r]
            IN /\ Len(request.replies) <= 1
               /\ \A k \in 1..Len(request.replies) : WellFormed(request.replies[k])
               /\ request.action \in {"ping", "clearComments"} => request.replies = <<Ack>>
               /\ request.promise # "rejected")
    /\ []<>(\A r \in 1..Len(listener.requests) : Len(listener.requests[r].replies) = 1)

\* A pass that threw was answered with its error, the request made while
\* it was under way with the refusal, and a ping in between at once.
C24_Witness ==
    /\ Len(listener.requests) = 3
    /\ listener.requests[1].action = "startReview"
    /\ listener.requests[1].replies = << Failure(ModelCallFailed) >>
    /\ listener.requests[2].replies = << Failure(AlreadyInProgress) >>
    /\ listener.requests[3].replies = << Ack >>

====
